---- MODULE Spec2Model ----
(***************************************************************************)
(* Model of the data-quality analyzer: run_analysis (app.py) drives        *)
(* detect_join_keys, check_orphan_records, check_entity_duplicates,        *)
(* check_process_gaps (data_quality_engine.py) and calculate_scores        *)
(* (scoring.py) over the datasets loaded from the uploaded files.          *)
(*                                                                         *)
(* Text (dataset names, column names, cell text) is a sequence of          *)
(* character codes, so that regex search, lower-casing, lexicographic      *)
(* order, length and difflib's similarity ratio are computed, not assumed. *)
(* Percentages and scores are carried in tenths (round(x, 1) * 10) and     *)
(* similarities in hundredths (round(x, 2) * 100).                         *)
(***************************************************************************)
EXTENDS Integers, Sequences, FiniteSets, TLC

VARIABLES
    files,      \* the uploaded files handed to run_analysis (input)
    cfg,        \* the assessment-form configuration: user_joins, monetary (input)
    now,        \* pd.Timestamp.now(), in whole days since the epoch (input)
    pc,         \* position in run_analysis
    loaded,     \* number of uploaded files the load loop has gone through
    dfs,        \* the dataset map {name -> DataFrame}, in insertion order
    errors,     \* the load errors
    joins,      \* the join candidates
    orphans,    \* findings of check_orphan_records
    dupes,      \* findings of check_entity_duplicates
    gaps,       \* findings of check_process_gaps
    score_data, \* result of calculate_scores
    impact,     \* result of estimate_monetary_impact
    shown       \* the grade, label and colours the report shows for the composite score

vars == <<files, cfg, now, pc, loaded, dfs, errors, joins, orphans, dupes, gaps, score_data, impact,
          shown>>

-----------------------------------------------------------------------------
(* Generic helpers                                                         *)

Range(s) == {s[i] : i \in DOMAIN s}

Min2(a, b) == IF a <= b THEN a ELSE b

Max2(a, b) == IF a >= b THEN a ELSE b

Abs(a) == IF a < 0 THEN -a ELSE a

RECURSIVE SumSeq(_)
SumSeq(s) == IF s = <<>> THEN 0 ELSE Head(s) + SumSeq(Tail(s))

Take(s, n) == SubSeq(s, 1, Min2(n, Len(s)))

\* s without its duplicates, first occurrences kept in order (pandas .unique(),
\* dict insertion order)
Unique(s) == SelectSeq([i \in DOMAIN s |-> <<i, s[i]>>],
                       LAMBDA p : \A j \in 1..(p[1] - 1) : s[j] # p[2])

UniqueVals(s) == [i \in DOMAIN Unique(s) |-> Unique(s)[i][2]]

\* floor(n / d) for d > 0, also for negative n
FloorDiv(n, d) == IF n >= 0 THEN n \div d ELSE -((-n + d - 1) \div d)

\* Python round(n / d * 10^k) for the exact quotient n / d, d > 0: to the
\* nearest integer, a tie going to the even neighbour
RoundDiv(n, d) ==
    LET q == FloorDiv(n, d)
        r == n - q * d
    IN  IF 2 * r < d THEN q
        ELSE IF 2 * r > d THEN q + 1
        ELSE IF q % 2 = 0 THEN q ELSE q + 1


\* _cap without its upper clamp
CapNoUpper(v, lo, hi) == Max2(lo, v)

\* scoring._cap
_cap(v, lo, hi) == Max2(lo, Min2(hi, v))

-----------------------------------------------------------------------------
(* Text: sequences of character codes                                      *)

\* str.lower() on the ASCII letters
LowerChar(c) == IF c >= 65 /\ c <= 90 THEN c + 32 ELSE c

Lower(s) == [i \in DOMAIN s |-> LowerChar(s[i])]

\* Python's str < str: lexicographic by code point
RECURSIVE StrLess(_, _)
StrLess(a, b) ==
    IF b = <<>> THEN FALSE
    ELSE IF a = <<>> THEN TRUE
    ELSE IF Head(a) # Head(b) THEN Head(a) < Head(b)
    ELSE StrLess(Tail(a), Tail(b))

\* `kw in s`
Contains(s, kw) ==
    \E i \in 1..(Len(s) - Len(kw) + 1) : SubSeq(s, i, i + Len(kw) - 1) = kw

\* re.search("kw$", s)
EndsWith(s, kw) ==
    Len(s) >= Len(kw) /\ SubSeq(s, Len(s) - Len(kw) + 1, Len(s)) = kw

\* str(n) for an integer n
RECURSIVE Digits(_)
Digits(n) ==
    IF n < 0 THEN <<45>> \o Digits(-n)
    ELSE IF n < 10 THEN <<48 + n>>
    ELSE Digits(n \div 10) \o <<48 + (n % 10)>>

\* sorted(S) for a finite set of texts
RECURSIVE SortedStrs(_)
SortedStrs(S) ==
    IF S = {} THEN <<>>
    ELSE LET m == CHOOSE x \in S : \A y \in S \ {x} : StrLess(x, y)
         IN  <<m>> \o SortedStrs(S \ {m})

-----------------------------------------------------------------------------
(* difflib.SequenceMatcher(None, a, b).ratio()                             *)

\* length of the common run of a[i..ahi-1] and b[j..bhi-1]
RECURSIVE RunLen(_, _, _, _, _, _)
RunLen(a, b, i, j, ahi, bhi) ==
    IF i < ahi /\ j < bhi /\ a[i] = b[j]
    THEN 1 + RunLen(a, b, i + 1, j + 1, ahi, bhi)
    ELSE 0

\* find_longest_match: the longest block, of those the one starting earliest
\* in a, of those the one starting earliest in b; <<i, j, k>>
find_longest_match(a, b, alo, ahi, blo, bhi) ==
    LET cand == {<<i, j, RunLen(a, b, i, j, ahi, bhi)>> :
                    i \in alo..(ahi - 1), j \in blo..(bhi - 1)}
        Better(x, y) == \/ x[3] > y[3]
                        \/ x[3] = y[3] /\ x[1] < y[1]
                        \/ x[3] = y[3] /\ x[1] = y[1] /\ x[2] < y[2]
    IN  CHOOSE x \in cand : \A y \in cand \ {x} : Better(x, y)

\* get_matching_blocks: the total size of the matching blocks
RECURSIVE MatchSize(_, _, _, _, _, _)
MatchSize(a, b, alo, ahi, blo, bhi) ==
    IF alo >= ahi \/ blo >= bhi THEN 0
    ELSE LET m == find_longest_match(a, b, alo, ahi, blo, bhi)
         IN  IF m[3] = 0 THEN 0
             ELSE m[3] + MatchSize(a, b, alo, m[1], blo, m[2])
                       + MatchSize(a, b, m[1] + m[3], ahi, m[2] + m[3], bhi)

\* ratio() = 2.0 * matches / (len(a) + len(b)), 1.0 for two empty texts;
\* as the fraction <<numerator, denominator>>
ratio(a, b) ==
    IF Len(a) + Len(b) = 0 THEN <<1, 1>>
    ELSE <<2 * MatchSize(a, b, 1, Len(a) + 1, 1, Len(b) + 1), Len(a) + Len(b)>>

-----------------------------------------------------------------------------
(* Compiled-in lexicons                                                    *)

\* ID_PATTERNS = (id|_id|key|code|num|number|ref)$
\* id, _id, key, code, num, number, ref
ID_WORDS ==
    <<<<105, 100>>,
      <<95, 105, 100>>,
      <<107, 101, 121>>,
      <<99, 111, 100, 101>>,
      <<110, 117, 109>>,
      <<110, 117, 109, 98, 101, 114>>,
      <<114, 101, 102>>>>

\* bool(ID_PATTERNS.search(col)), re.IGNORECASE
ID_PATTERNS(col) == \E i \in DOMAIN ID_WORDS : EndsWith(Lower(col), ID_WORDS[i])

\* name, customer, client, company, vendor, supplier, product
NAME_WORDS ==
    <<<<110, 97, 109, 101>>,
      <<99, 117, 115, 116, 111, 109, 101, 114>>,
      <<99, 108, 105, 101, 110, 116>>,
      <<99, 111, 109, 112, 97, 110, 121>>,
      <<118, 101, 110, 100, 111, 114>>,
      <<115, 117, 112, 112, 108, 105, 101, 114>>,
      <<112, 114, 111, 100, 117, 99, 116>>>>

\* bool(NAME_PATTERNS.search(col)), re.IGNORECASE
NAME_PATTERNS(col) == \E i \in DOMAIN NAME_WORDS : Contains(Lower(col), NAME_WORDS[i])

\* amount, price, cost, revenue, salary, fee, total, value
MONEY_WORDS ==
    <<<<97, 109, 111, 117, 110, 116>>,
      <<112, 114, 105, 99, 101>>,
      <<99, 111, 115, 116>>,
      <<114, 101, 118, 101, 110, 117, 101>>,
      <<115, 97, 108, 97, 114, 121>>,
      <<102, 101, 101>>,
      <<116, 111, 116, 97, 108>>,
      <<118, 97, 108, 117, 101>>>>

is_money(col) == \E i \in DOMAIN MONEY_WORDS : Contains(Lower(col), MONEY_WORDS[i])

\* date, time, created, updated, (timestamp, contains, time)
DATE_WORDS ==
    <<<<100, 97, 116, 101>>,
      <<116, 105, 109, 101>>,
      <<99, 114, 101, 97, 116, 101, 100>>,
      <<117, 112, 100, 97, 116, 101, 100>>>>

\* the column-name test of the validity and of the timeliness dimension: the
\* validity regex also lists "timestamp", which "time" already matches
is_date_col(col) == \E i \in DOMAIN DATE_WORDS : Contains(Lower(col), DATE_WORDS[i])

\* order, lead, request, invoice, claim, payment, shipment, delivery, report, event
STAGE_KEYWORDS ==
    <<<<111, 114, 100, 101, 114>>,
      <<108, 101, 97, 100>>,
      <<114, 101, 113, 117, 101, 115, 116>>,
      <<105, 110, 118, 111, 105, 99, 101>>,
      <<99, 108, 97, 105, 109>>,
      <<112, 97, 121, 109, 101, 110, 116>>,
      <<115, 104, 105, 112, 109, 101, 110, 116>>,
      <<100, 101, 108, 105, 118, 101, 114, 121>>,
      <<114, 101, 112, 111, 114, 116>>,
      <<101, 118, 101, 110, 116>>>>

NO_STAGE == 999

\* stage_rank(fname): index of the first keyword contained in the name
stage_rank(fname) ==
    LET hits == {i \in DOMAIN STAGE_KEYWORDS : Contains(Lower(fname), STAGE_KEYWORDS[i])}
    IN  IF hits = {} THEN NO_STAGE
        ELSE (CHOOSE i \in hits : \A j \in hits : i <= j) - 1

-----------------------------------------------------------------------------
(* DataFrames.  A frame is [name, columns, rows]; a row is the sequence of *)
(* its cells in column order; a cell is [k, n, s]:                         *)
(*   k = "null"  NaN (an empty CSV field)                                   *)
(*   k = "num"   the integer n                                              *)
(*   k = "str"   the text s                                                 *)
(*   k = "date"  the text of a date, which parses to day n since the epoch  *)

Null == [k |-> "null", n |-> 0, s |-> <<>>]

Num(v) == [k |-> "num", n |-> v, s |-> <<>>]

Str(t) == [k |-> "str", n |-> 0, s |-> t]

Date(d) == [k |-> "date", n |-> d, s |-> <<>>]

\* dfs[name]
Frame(D, name) == D[CHOOSE i \in DOMAIN D : D[i].name = name]

HasFrame(D, name) == \E i \in DOMAIN D : D[i].name = name

\* col in df.columns
HasCol(df, col) == \E i \in DOMAIN df.columns : df.columns[i] = col

ColIdx(df, col) == CHOOSE i \in DOMAIN df.columns : df.columns[i] = col

\* df[col]: the cells of the column, in row order
Column(df, col) == [r \in DOMAIN df.rows |-> df.rows[r][ColIdx(df, col)]]

\* series.dropna()
dropna(cells) == SelectSeq(cells, LAMBDA c : c.k # "null")

\* pd.api.types.is_numeric_dtype: read_csv types a column int64 when every
\* field is an integer, float64 when the others are empty, object otherwise
\* (a frame without rows has object columns)
is_numeric_dtype(cells) == cells # <<>> /\ \A i \in DOMAIN cells : cells[i].k \in {"num", "null"}

is_float_dtype(cells) == is_numeric_dtype(cells) /\ \E i \in DOMAIN cells : cells[i].k = "null"

\* the text of a date field: injective in the day, never a number
DateText(d) == <<100>> \o Digits(d)

\* series.astype(str), one cell: an int64 prints "7", a float64 "7.0"; fields
\* of object columns keep their text; NaN prints "nan"
astype_str(cells, c) ==
    IF c.k = "null" THEN <<110, 97, 110>>
    ELSE IF c.k = "str" THEN c.s
    ELSE IF c.k = "date" THEN DateText(c.n)
    ELSE IF is_float_dtype(cells) THEN Digits(c.n) \o <<46, 48>>
    ELSE Digits(c.n)

\* set(df[col].dropna().astype(str))
KeyValues(df, col) ==
    LET cells == Column(df, col)
    IN  {astype_str(cells, cells[i]) : i \in {j \in DOMAIN cells : cells[j].k # "null"}}

\* series.nunique(): distinct non-null values
nunique(cells) == Cardinality({cells[i] : i \in {j \in DOMAIN cells : cells[j].k # "null"}})

\* len(df.drop_duplicates())
UniqueRowCount(df) == Cardinality(Range(df.rows))

\* the stable ascending order of a sequence of integer keys: the indices left
\* to place (todo), smallest key first, equal keys in index order
RECURSIVE Order(_, _)
Order(keys, todo) ==
    IF todo = {} THEN <<>>
    ELSE LET i == CHOOSE i \in todo : \A j \in todo \ {i} :
                      keys[i] < keys[j] \/ (keys[i] = keys[j] /\ i < j)
         IN  <<i>> \o Order(keys, todo \ {i})

\* sorted(s, key = Key): stable, ascending
SortAsc(s, Key(_)) ==
    LET perm == Order([i \in DOMAIN s |-> Key(s[i])], DOMAIN s)
    IN  [i \in DOMAIN s |-> s[perm[i]]]

\* list.sort(key = Key, reverse = True): stable, descending
SortDesc(s, Key(_)) ==
    LET perm == Order([i \in DOMAIN s |-> -Key(s[i])], DOMAIN s)
    IN  [i \in DOMAIN s |-> s[perm[i]]]

RECURSIVE Concat(_)
Concat(ss) == IF ss = <<>> THEN <<>> ELSE Head(ss) \o Concat(Tail(ss))

\* itertools.combinations(range(1, n + 1), 2), in its order
RECURSIVE combinations(_)
combinations(n) ==
    IF n < 2 THEN <<>>
    ELSE LET prev == combinations(n - 1)
             AtI(i) == SelectSeq(prev, LAMBDA p : p[1] = i) \o <<<<i, n>>>>
         IN  Concat([i \in 1..(n - 1) |-> AtI(i)])

-----------------------------------------------------------------------------
(* STEP 2: detect_join_keys                                                *)

\* join.get("col_a") of an exact-name candidate, which has no such entry
NoCol == <<-1>>

\* " <-> " (U+2194) and " -> " (U+2192)
BothWays == <<32, 8596, 32>>

OneWay == <<32, 8594, 32>>

\* col_to_files: the column names in order of first appearance
AllColumns(D) == UniqueVals(Concat([i \in DOMAIN D |-> D[i].columns]))

\* col_to_files[col]: the frames owning col, in dict order
Owners(D, col) == SelectSeq([i \in DOMAIN D |-> i], LAMBDA i : HasCol(D[i], col))

\* the distinct-value test required of every owning frame
high_cardinality_in_all(D, col) ==
    \A i \in Range(Owners(D, col)) :
        10 * nunique(Column(D[i], col)) > 3 * Len(D[i].rows)

\* dfs[f][col].nunique() > 0.3 * len(dfs[f]) in at least one owning frame
high_cardinality(D, col) ==
    \E i \in Range(Owners(D, col)) :
        10 * nunique(Column(D[i], col)) > 3 * Len(D[i].rows)

ExactJoins(D) ==
    LET cols == AllColumns(D)
        ForCol(col) ==
            LET own == Owners(D, col)
                cmb == combinations(Len(own))
            IN  IF Len(own) < 2 THEN <<>>
                ELSE IF ID_PATTERNS(col) \/ high_cardinality(D, col)
                THEN [p \in DOMAIN cmb |->
                        [key |-> col, file_a |-> D[own[cmb[p][1]]].name,
                         file_b |-> D[own[cmb[p][2]]].name,
                         col_a |-> NoCol, col_b |-> NoCol]]
                ELSE <<>>
    IN  Concat([c \in DOMAIN cols |-> ForCol(cols[c])])

\* ratio > 0.82 and at least one side looks like an identifier
FuzzyColMatch(ca, cb) ==
    /\ ca # cb
    /\ 100 * ratio(ca, cb)[1] > 82 * ratio(ca, cb)[2]
    /\ (ID_PATTERNS(ca) \/ ID_PATTERNS(cb))

FuzzyJoins(D) ==
    LET cmb == combinations(Len(D))
        ForPair(a, b) ==
            Concat([i \in DOMAIN D[a].columns |->
                Concat([j \in DOMAIN D[b].columns |->
                    LET ca == D[a].columns[i]
                        cb == D[b].columns[j]
                    IN  IF FuzzyColMatch(ca, cb)
                        THEN <<[key |-> ca \o BothWays \o cb,
                                file_a |-> D[a].name, file_b |-> D[b].name,
                                col_a |-> ca, col_b |-> cb]>>
                        ELSE <<>>])])
    IN  Concat([p \in DOMAIN cmb |-> ForPair(cmb[p][1], cmb[p][2])])

detect_join_keys(D) == ExactJoins(D) \o FuzzyJoins(D)

-----------------------------------------------------------------------------
(* CHECK 1: check_orphan_records                                           *)

\* join.get("col_a", join["key"]), join.get("col_b", join["key"])
JoinColA(j) == IF j.col_a = NoCol THEN j.key ELSE j.col_a

JoinColB(j) == IF j.col_b = NoCol THEN j.key ELSE j.col_b


\* the orphan percentage taken of the de-duplicated rows of the source
OrphanPctOfDistinct(count, df) == RoundDiv(count * 1000, Cardinality(Range(df.rows)))

\* count / len(dfs[source]) * 100, rounded to one decimal, in tenths
OrphanPct(count, df) == RoundDiv(count * 1000, Len(df.rows))

\* sorted(list(values))[:5]
Examples(values) == Take(SortedStrs(values), 5)

\* df[df[col].astype(str).isin(examples)].head(3)
SampleRows(df, col, examples) ==
    LET cells == Column(df, col)
        hit == SelectSeq([r \in DOMAIN df.rows |-> r],
                         LAMBDA r : astype_str(cells, cells[r]) \in Range(examples))
    IN  [i \in 1..Min2(3, Len(hit)) |-> df.rows[hit[i]]]

\* the finding with its direction written target -> source
OrphanFindingReversed(D, j, source, target, col_src, orphan_values) ==
    [direction     |-> target \o OneWay \o source,
     key           |-> j.key,
     orphan_count  |-> Cardinality(orphan_values),
     pct_of_source |-> OrphanPct(Cardinality(orphan_values), Frame(D, source)),
     example_values |-> Examples(orphan_values),
     sample_rows   |-> SampleRows(Frame(D, source), col_src, Examples(orphan_values))]

OrphanFinding(D, j, source, target, col_src, orphan_values) ==
    [direction     |-> source \o OneWay \o target,
     key           |-> j.key,
     orphan_count  |-> Cardinality(orphan_values),
     pct_of_source |-> OrphanPct(Cardinality(orphan_values), Frame(D, source)),
     example_values |-> Examples(orphan_values),
     sample_rows   |-> SampleRows(Frame(D, source), col_src, Examples(orphan_values))]

\* the findings of one join candidate: A -> B, then B -> A
OrphansOfJoin(D, j) ==
    LET fa == j.file_a
        fb == j.file_b
        col_a == JoinColA(j)
        col_b == JoinColB(j)
    IN  IF ~HasCol(Frame(D, fa), col_a) \/ ~HasCol(Frame(D, fb), col_b) THEN <<>>
        ELSE LET vals_a == KeyValues(Frame(D, fa), col_a)
                 vals_b == KeyValues(Frame(D, fb), col_b)
                 orphans_in_a == vals_a \ vals_b
                 orphans_in_b == vals_b \ vals_a
                 \* col_src = col_a if source == fa else col_b
             IN  (IF orphans_in_a = {} THEN <<>>
                  ELSE <<OrphanFinding(D, j, fa, fb, col_a, orphans_in_a)>>)
                 \o
                 (IF orphans_in_b = {} THEN <<>>
                  ELSE <<OrphanFinding(D, j, fb, fa,
                                       IF fb = fa THEN col_a ELSE col_b, orphans_in_b)>>)

PctOfSource(f) == f.pct_of_source

\* the findings of the first candidate of each dataset pair only
check_orphan_records_one_per_pair(D, J) ==
    SortDesc(Concat([i \in DOMAIN J |->
                IF \E k \in 1..(i - 1) : {J[k].file_a, J[k].file_b} = {J[i].file_a, J[i].file_b}
                THEN <<>> ELSE OrphansOfJoin(D, J[i])]), PctOfSource)

check_orphan_records(D, J) ==
    SortDesc(Concat([i \in DOMAIN J |-> OrphansOfJoin(D, J[i])]), PctOfSource)

-----------------------------------------------------------------------------
(* CHECK 2: check_entity_duplicates                                        *)

\* the bound of the fuzzy window: range(i + 1, min(i + 30, len(names_list)))
WINDOW == 30

\* at most this many distinct names enter the fuzzy check
NAME_CAP == 5000

\* the fuzzy check skips pairs whose lengths differ by more than this
MAX_LEN_DIFF == 8

\* id_cols = [c for c in df.columns if ID_PATTERNS.search(c)]
id_cols(df) == SelectSeq(df.columns, ID_PATTERNS)

\* the name columns without the exclusion of identifier columns
name_cols_with_ids(df) == SelectSeq(df.columns, NAME_PATTERNS)

\* name_cols: NAME_PATTERNS matches and ID_PATTERNS does not
name_cols(df) == SelectSeq(df.columns, LAMBDA c : NAME_PATTERNS(c) /\ ~ID_PATTERNS(c))

\* the order groupby gives its group keys: numbers by value in a numeric
\* column, text by code point in an object column
CellLess(cells, a, b) ==
    IF is_numeric_dtype(cells) THEN a.n < b.n
    ELSE StrLess(astype_str(cells, a), astype_str(cells, b))

RECURSIVE SortedCells(_, _)
SortedCells(cells, S) ==
    IF S = {} THEN <<>>
    ELSE LET m == CHOOSE x \in S : \A y \in S \ {x} : CellLess(cells, x, y)
         IN  <<m>> \o SortedCells(cells, S \ {m})

\* df[df[name_col] == v][id_col]: the id cells of the rows named v
IdsOfName(df, id_col, name_col, v) ==
    LET names == Column(df, name_col)
        ids   == Column(df, id_col)
        at    == SelectSeq([r \in DOMAIN df.rows |-> r], LAMBDA r : names[r] = v)
    IN  [i \in DOMAIN at |-> ids[at[i]]]

\* df.groupby(name_col)[id_col].nunique(), one record per non-null name,
\* in group-key order
dup_names_all(df, id_col, name_col) ==
    LET keys == SortedCells(Column(df, name_col), Range(dropna(Column(df, name_col))))
    IN  [g \in DOMAIN keys |->
            [name |-> keys[g],
             unique_ids |-> nunique(IdsOfName(df, id_col, name_col, keys[g]))]]

\* dup_names keeping the names seen with a single id
dup_names_from_1(df, id_col, name_col) ==
    SortDesc(SelectSeq(dup_names_all(df, id_col, name_col), LAMBDA g : g.unique_ids >= 1),
             LAMBDA g : g.unique_ids)

UniqueIdsOf(g) == g.unique_ids

\* dup_names[dup_names["unique_ids"] > 1].sort_values("unique_ids", ascending=False)
dup_names(df, id_col, name_col) ==
    SortDesc(SelectSeq(dup_names_all(df, id_col, name_col), LAMBDA g : g.unique_ids > 1),
             UniqueIdsOf)

SameNameType == "Same name, multiple IDs"

FuzzyType == "Fuzzy name duplicates (likely same entity)"

\* 2a: exact name duplication with different IDs
SameNameFindings(df, id_col, name_col) ==
    LET dn  == dup_names(df, id_col, name_col)
        top == Take(dn, 5)
    IN  IF dn = <<>> THEN <<>>
        ELSE <<[file |-> df.name,
                type |-> SameNameType,
                duplicate_count |-> Len(dn),
                examples |-> [g \in DOMAIN top |->
                    [name |-> top[g].name,
                     appears_with_ids |->
                         Take(UniqueVals(IdsOfName(df, id_col, name_col, top[g].name)), 6),
                     id_count |-> top[g].unique_ids]]]>>

\* sorted(df[name_col].dropna().astype(str).unique()[:5000])
names_list(df, name_col) ==
    LET cells == Column(df, name_col)
        texts == [i \in DOMAIN dropna(cells) |-> astype_str(cells, dropna(cells)[i])]
    IN  SortedStrs(Range(Take(UniqueVals(texts), NAME_CAP)))

\* the ratio test letting the exact match (ratio = 1.0) through
FuzzyRatioHitUpTo1(a, b) ==
    LET r == ratio(Lower(a), Lower(b))
    IN  100 * r[1] > 85 * r[2] /\ r[1] <= r[2]

\* 0.85 < ratio < 1.0 on the lower-cased names
FuzzyRatioHit(a, b) ==
    LET r == ratio(Lower(a), Lower(b))
    IN  100 * r[1] > 85 * r[2] /\ r[1] < r[2]

\* round(ratio, 2), in hundredths
Similarity(a, b) ==
    LET r == ratio(Lower(a), Lower(b)) IN RoundDiv(100 * r[1], r[2])

\* the window reaching one place further
window_end_inclusive(i, n) == Min2(i + WINDOW, n)

\* the last place compared with place i (1-based) in a list of n names:
\* range(i + 1, min(i + 30, len)) ends before min(i + 30, len), 0-based
window_end(i, n) == Min2(i + WINDOW - 1, n)

\* for i in range(len): for j in range(i + 1, min(i + 30, len)), 1-based
fuzzy_pairs(df, name_col) ==
    LET nl == names_list(df, name_col)
        ForI(i) ==
            LET js == [d \in 1..(window_end(i, Len(nl)) - i) |-> i + d]
            IN  Concat([x \in DOMAIN js |->
                    LET a == nl[i]
                        b == nl[js[x]]
                    IN  IF Abs(Len(a) - Len(b)) > MAX_LEN_DIFF THEN <<>>
                        ELSE IF FuzzyRatioHit(a, b)
                        THEN <<[value_a |-> a, value_b |-> b,
                                similarity |-> Similarity(a, b)]>>
                        ELSE <<>>])
    IN  Concat([i \in DOMAIN nl |-> ForI(i)])

\* 2b: fuzzy name duplicates
FuzzyFindings(df, name_col) ==
    LET fp == fuzzy_pairs(df, name_col)
    IN  IF fp = <<>> THEN <<>>
        ELSE <<[file |-> df.name,
                type |-> FuzzyType,
                duplicate_count |-> Len(fp),
                examples |-> Take(fp, 5)]>>

DuplicatesOfFrame(df) ==
    IF id_cols(df) = <<>> \/ name_cols(df) = <<>> THEN <<>>
    ELSE SameNameFindings(df, id_cols(df)[1], name_cols(df)[1])
         \o FuzzyFindings(df, name_cols(df)[1])

check_entity_duplicates(D) == Concat([i \in DOMAIN D |-> DuplicatesOfFrame(D[i])])

-----------------------------------------------------------------------------
(* CHECK 3: check_process_gaps                                             *)

RowCount(df) == Len(df.rows)

StageRankOf(df) == stage_rank(df.name)

\* ordered = sorted(dfs.keys(), key = row count, reverse = True)
ordered(D) == SortDesc(D, RowCount)

\* the datasets sorted by stage rank, highest first
rankedDescending(D) == SortDesc(D, StageRankOf)

\* ranked = sorted(dfs.keys(), key = stage_rank)
ranked(D) == SortAsc(D, StageRankOf)

\* pipeline = ranked if ranked[0] != ranked[-1] else ordered: the comparison
\* is of the first and the last dataset NAME of the ranked list
pipeline(D) ==
    LET r == ranked(D)
    IN  IF r[1].name # r[Len(r)].name
        THEN [i \in DOMAIN r |-> r[i].name]
        ELSE [i \in DOMAIN D |-> ordered(D)[i].name]

\* the candidates linking exactly fa and fb; the second lookup of the code
\* (fa and fb both among file_a, file_b) is tried when the first finds none
shared(J, fa, fb) ==
    LET first  == SelectSeq(J, LAMBDA j : {j.file_a, j.file_b} = {fa, fb})
        second == SelectSeq(J, LAMBDA j : fa \in {j.file_a, j.file_b}
                                          /\ fb \in {j.file_a, j.file_b})
    IN  IF first # <<>> THEN first ELSE second


\* the gap share left as a fraction, not scaled to a percentage
GapPctUnscaled(count, ids_upstream) == RoundDiv(count * 10, Cardinality(ids_upstream))

\* count / len(ids_upstream) * 100, rounded to one decimal, in tenths
GapPct(count, ids_upstream) == RoundDiv(count * 1000, Cardinality(ids_upstream))

\* the finding of one adjacent pair, if any
GapOfPair(D, J, fa, fb) ==
    LET sh == shared(J, fa, fb)
    IN  IF sh = <<>> THEN <<>>
        ELSE LET join  == sh[1]
                 col_a == JoinColA(join)
                 col_b == JoinColB(join)
             IN  IF ~HasCol(Frame(D, fa), col_a) \/ ~HasCol(Frame(D, fb), col_b) THEN <<>>
                 ELSE LET ids_upstream   == KeyValues(Frame(D, fa), col_a)
                          ids_downstream == KeyValues(Frame(D, fb), col_b)
                          missing_downstream == ids_upstream \ ids_downstream
                      IN  IF missing_downstream = {} THEN <<>>
                          ELSE <<[stage_from |-> fa,
                                  stage_to   |-> fb,
                                  key        |-> join.key,
                                  missing_count |-> Cardinality(missing_downstream),
                                  pct_of_upstream |->
                                      GapPct(Cardinality(missing_downstream), ids_upstream),
                                  example_ids |-> Examples(missing_downstream),
                                  sample_rows |-> SampleRows(Frame(D, fa), col_a,
                                                             Examples(missing_downstream))]>>

PctOfUpstream(f) == f.pct_of_upstream

\* the findings left in pipeline order
check_process_gaps_unsorted(D, J) ==
    IF Len(D) < 2 THEN <<>>
    ELSE LET p == pipeline(D)
         IN  Concat([i \in 1..(Len(p) - 1) |-> GapOfPair(D, J, p[i], p[i + 1])])

check_process_gaps(D, J) ==
    IF Len(D) < 2 THEN <<>>
    ELSE LET p == pipeline(D)
         IN  SortDesc(Concat([i \in 1..(Len(p) - 1) |-> GapOfPair(D, J, p[i], p[i + 1])]),
                      PctOfUpstream)

-----------------------------------------------------------------------------
(* calculate_scores.  Scores are in tenths of a point.                     *)

\* scores["consistency"] = None
None == -1

RECURSIVE GCD(_, _)
GCD(a, b) == IF b = 0 THEN a ELSE GCD(b, a % b)

\* the fraction n / d (d > 0) in lowest terms
Frac(n, d) == LET g == GCD(Abs(n), d) IN IF g = 0 THEN <<0, 1>> ELSE <<n \div g, d \div g>>

FracAdd(x, y) == Frac(x[1] * y[2] + y[1] * x[2], x[2] * y[2])

RECURSIVE FracSum(_)
FracSum(s) == IF s = <<>> THEN <<0, 1>> ELSE FracAdd(Head(s), FracSum(Tail(s)))

\* _cap(v) for a fraction v, lo = 0, hi = 100
FracCap(x) ==
    IF x[1] < 0 THEN <<0, 1>> ELSE IF x[1] > 100 * x[2] THEN <<100, 1>> ELSE x

NonNullCells(df) ==
    SumSeq([r \in DOMAIN df.rows |->
        Cardinality({c \in DOMAIN df.columns : df.rows[r][c].k # "null"})])

\* 1. completeness = _cap(round(non_null / total * 100 * 0.93, 1), hi = 92)
Completeness(D) ==
    LET total_cells    == SumSeq([i \in DOMAIN D |-> Len(D[i].rows) * Len(D[i].columns)])
        non_null_cells == SumSeq([i \in DOMAIN D |-> NonNullCells(D[i])])
    IN  IF total_cells = 0 THEN _cap(930, 0, 920)
        ELSE _cap(RoundDiv(non_null_cells * 930, total_cells), 0, 920)

\* penalty = min(30, dup_count * 4)
UniquenessPenalty(dup) ==
    Min2(30, 4 * SumSeq([i \in DOMAIN dup |-> dup[i].duplicate_count]))

\* 2. uniqueness = _cap(round(unique_rows / total_rows * 100 - penalty, 1))
Uniqueness(D, dup) ==
    LET total_rows  == SumSeq([i \in DOMAIN D |-> Len(D[i].rows)])
        unique_rows == SumSeq([i \in DOMAIN D |-> UniqueRowCount(D[i])])
        base_uniq   == IF total_rows = 0 THEN 1000
                       ELSE RoundDiv(unique_rows * 1000, total_rows)
    IN  _cap(base_uniq - 10 * UniquenessPenalty(dup), 0, 1000)

\* the values of a numeric series in ascending order
SortedNums(cells) ==
    LET nn == dropna(cells) IN SortAsc([i \in DOMAIN nn |-> nn[i].n], LAMBDA v : v)

\* 4 * series.quantile(k / 4), linear interpolation between order statistics
Quantile4(sorted, k) ==
    LET pos4 == k * (Len(sorted) - 1)
        lo   == pos4 \div 4
        rem  == pos4 % 4
    IN  IF rem = 0 THEN 4 * sorted[lo + 1]
        ELSE 4 * sorted[lo + 1] + (sorted[lo + 2] - sorted[lo + 1]) * rem

\* values below q25 - 3 * iqr or above q75 + 3 * iqr
Outliers(cells) ==
    LET s   == SortedNums(cells)
        q25 == Quantile4(s, 1)
        q75 == Quantile4(s, 3)
        iqr == q75 - q25
    IN  Cardinality({i \in DOMAIN s : 4 * s[i] < q25 - 3 * iqr \/ 4 * s[i] > q75 + 3 * iqr})

IQR4(cells) == Quantile4(SortedNums(cells), 3) - Quantile4(SortedNums(cells), 1)

\* pd.to_datetime(series, errors = "coerce"): per cell the day, or NaT.  A
\* number is read as nanoseconds since the epoch (day 0, or day -1 below
\* zero); in an object column only the text of a date parses
NaT == -1000000

to_datetime(cells, c) ==
    IF c.k = "null" THEN NaT
    ELSE IF is_numeric_dtype(cells) THEN (IF c.n < 0 THEN -1 ELSE 0)
    ELSE IF c.k = "date" THEN c.n
    ELSE NaT

Parsed(cells) == [i \in DOMAIN cells |-> to_datetime(cells, cells[i])]

\* score of one temporal column: 100 - fail_rate * 60 - future / len * 30,
\* rounded to one decimal and capped
DateColScore(cells, t) ==
    LET p      == Parsed(cells)
        fails  == Cardinality({i \in DOMAIN p : p[i] = NaT})
        future == Cardinality({i \in DOMAIN p : p[i] # NaT /\ p[i] > t})
    IN  Frac(_cap(RoundDiv(1000 * Len(cells) - 600 * fails - 300 * future, Len(cells)),
                  0, 1000), 10)

\* the single-value test with the row threshold off by one
SingleValuedOver6(non_null, df) == nunique(non_null) = 1 /\ Len(df.rows) > 6

\* non_null.nunique() == 1 and len(df) > 5
SingleValued(non_null, df) == nunique(non_null) = 1 /\ Len(df.rows) > 5

\* the validity score of one column, as a fraction of points
ColScore(df, col, t) ==
    LET cells    == Column(df, col)
        non_null == dropna(cells)
    IN  IF Len(non_null) = 0 THEN <<0, 1>>
        ELSE IF SingleValued(non_null, df) THEN <<50, 1>>
        ELSE IF is_numeric_dtype(cells)
        THEN IF is_money(col)
             THEN LET neg == Cardinality({i \in DOMAIN cells :
                                            cells[i].k = "num" /\ cells[i].n < 0})
                  IN  FracCap(Frac(100 * Len(cells) - 200 * neg, Len(cells)))
             ELSE IF Len(non_null) > 10
             THEN IF IQR4(cells) > 0
                  THEN FracCap(Frac(100 * Len(non_null) - 120 * Outliers(cells),
                                    Len(non_null)))
                  ELSE <<85, 1>>
             ELSE <<88, 1>>
        ELSE IF is_date_col(col) THEN DateColScore(cells, t)
        ELSE <<90, 1>>

col_scores(D, t) ==
    Concat([i \in DOMAIN D |->
        [c \in DOMAIN D[i].columns |-> ColScore(D[i], D[i].columns[c], t)]])

\* 3. validity = _cap(round(sum(col_scores) / len(col_scores), 1)), 85 without columns
Validity(D, t) ==
    LET cs == col_scores(D, t)
        s  == FracSum(cs)
    IN  IF cs = <<>> THEN 850
        ELSE _cap(RoundDiv(10 * s[1], s[2] * Len(cs)), 0, 1000)

\* consistency with the weights of the worst and the average swapped
ConsistencySwappedWeights(orph, gap, num_files) ==
    LET all_issues == [i \in DOMAIN orph |-> orph[i].pct_of_source]
                      \o [i \in DOMAIN gap |-> gap[i].pct_of_upstream]
        n     == Len(all_issues)
        worst == CHOOSE w \in Range(all_issues) : \A x \in Range(all_issues) : x <= w
        total == SumSeq(all_issues)
    IN  IF num_files < 2 THEN None
        ELSE IF n = 0 THEN 950
        ELSE _cap(RoundDiv(100000 * n - 35 * worst * n - 65 * total, 100 * n), 0, 1000)

\* consistency with the single-file test off by one
ConsistencyUpTo2(orph, gap, num_files) ==
    LET all_issues == [i \in DOMAIN orph |-> orph[i].pct_of_source]
                      \o [i \in DOMAIN gap |-> gap[i].pct_of_upstream]
        n     == Len(all_issues)
        worst == CHOOSE w \in Range(all_issues) : \A x \in Range(all_issues) : x <= w
        total == SumSeq(all_issues)
    IN  IF num_files <= 2 THEN None
        ELSE IF n = 0 THEN 950
        ELSE _cap(RoundDiv(100000 * n - 65 * worst * n - 35 * total, 100 * n), 0, 1000)

\* 4. consistency: None for one file; 95 without findings; otherwise
\* _cap(round(100 - worst * 0.65 - avg * 0.35, 1)) over the pooled percentages
Consistency(orph, gap, num_files) ==
    LET all_issues == [i \in DOMAIN orph |-> orph[i].pct_of_source]
                      \o [i \in DOMAIN gap |-> gap[i].pct_of_upstream]
        n     == Len(all_issues)
        worst == CHOOSE w \in Range(all_issues) : \A x \in Range(all_issues) : x <= w
        total == SumSeq(all_issues)
    IN  IF num_files < 2 THEN None
        ELSE IF n = 0 THEN 950
        ELSE _cap(RoundDiv(100000 * n - 65 * worst * n - 35 * total, 100 * n), 0, 1000)

\* the parsed, non-NaT days of every temporal column of every dataset
all_dates(D) ==
    Concat([i \in DOMAIN D |->
        Concat([c \in DOMAIN D[i].columns |->
            IF is_date_col(D[i].columns[c])
            THEN SelectSeq(Parsed(Column(D[i], D[i].columns[c])), LAMBDA d : d # NaT)
            ELSE <<>>])])

\* the tiers with their boundary day counted in
TierInclusive(days_old) ==
    IF days_old <= 7 THEN 95
    ELSE IF days_old <= 30 THEN 82
    ELSE IF days_old <= 90 THEN 65
    ELSE IF days_old <= 365 THEN 45
    ELSE 25

\* the recency tier of the most recent date
Tier(days_old) ==
    IF days_old < 7 THEN 95
    ELSE IF days_old < 30 THEN 82
    ELSE IF days_old < 90 THEN 65
    ELSE IF days_old < 365 THEN 45
    ELSE 25

\* 5. timeliness = _cap(round(t - future * 2, 1)), 40 without any date
Timeliness(D, t) ==
    LET ad       == all_dates(D)
        latest   == CHOOSE d \in Range(ad) : \A x \in Range(ad) : x <= d
        days_old == t - latest
        future   == Cardinality({i \in DOMAIN ad : ad[i] > t})
    IN  IF ad = <<>> THEN 400
        ELSE _cap(10 * (Tier(days_old) - 2 * future), 0, 1000)

\* integration_penalty = max(0, (num_files - 1) * 2)
\* the penalty counted per dataset instead of per dataset after the first
IntegrationPenaltyPerFile(num_files) == Max2(0, num_files * 2)

integration_penalty(num_files) == Max2(0, (num_files - 1) * 2)

Dims == <<"completeness", "uniqueness", "validity", "consistency", "timeliness">>

\* the weight tables, in hundredths
weights(num_files) ==
    IF num_files >= 2
    THEN [completeness |-> 18, uniqueness |-> 18, validity |-> 14,
          consistency |-> 35, timeliness |-> 15]
    ELSE [completeness |-> 30, uniqueness |-> 28, validity |-> 27,
          consistency |-> 0, timeliness |-> 15]

\* overall = _cap(round(w_sum / w_total - integration_penalty, 1), hi = 92)
Overall(sc, num_files) ==
    LET w       == weights(num_files)
        used    == SelectSeq(Dims, LAMBDA d : w[d] > 0 /\ sc[d] # None)
        w_sum   == SumSeq([i \in DOMAIN used |-> sc[used[i]] * w[used[i]]])
        w_total == SumSeq([i \in DOMAIN used |-> w[used[i]]])
    IN  IF w_total = 0 THEN _cap(0, 0, 920)
        ELSE _cap(RoundDiv(w_sum - 10 * integration_penalty(num_files) * w_total, w_total),
                  0, 920)

DimScores(D, orph, dup, gap, num_files, t) ==
    [completeness |-> Completeness(D),
     uniqueness   |-> Uniqueness(D, dup),
     validity     |-> Validity(D, t),
     consistency  |-> Consistency(orph, gap, num_files),
     timeliness   |-> Timeliness(D, t)]

calculate_scores(D, orph, dup, gap, num_files, t) ==
    LET sc == DimScores(D, orph, dup, gap, num_files, t)
    IN  [scores  |-> [completeness |-> sc.completeness,
                      uniqueness   |-> sc.uniqueness,
                      validity     |-> sc.validity,
                      consistency  |-> sc.consistency,
                      timeliness   |-> sc.timeliness,
                      overall      |-> Overall(sc, num_files)],
         details |-> [uniqueness_penalty  |-> UniquenessPenalty(dup),
                      integration_penalty |-> integration_penalty(num_files)],
         weights |-> weights(num_files),
         \* the local list col_scores, kept to be observed
         col_scores |-> col_scores(D, t)]

-----------------------------------------------------------------------------
(* run_analysis                                                            *)

\* ".csv"
DotCsv == <<46, 99, 115, 118>>

\* re.sub(r"\.csv$", "", f.name, flags = re.IGNORECASE)
StripCsv(fname) ==
    IF EndsWith(Lower(fname), DotCsv) THEN SubSeq(fname, 1, Len(fname) - 4) ELSE fname

RECURSIVE strip(_)
strip(s) ==
    IF s = <<>> THEN s
    ELSE IF Head(s) = 32 THEN strip(Tail(s))
    ELSE IF s[Len(s)] = 32 THEN strip(SubSeq(s, 1, Len(s) - 1))
    ELSE s

\* c.strip().lower().replace(" ", "_")
NormCol(c) == [i \in DOMAIN strip(c) |-> IF Lower(strip(c))[i] = 32 THEN 95 ELSE Lower(strip(c))[i]]

-----------------------------------------------------------------------------
(* semantic.estimate_monetary_impact.  Money is a fraction <<n, d>>;       *)
(* <<0, 0>> stands for None.                                                *)

\* COL_SEMANTIC["monetary"]
COL_SEMANTIC_monetary ==
    <<<<97, 109, 111, 117, 110, 116>>,
      <<112, 114, 105, 99, 101>>,
      <<99, 111, 115, 116>>,
      <<114, 101, 118, 101, 110, 117, 101>>,
      <<115, 97, 108, 97, 114, 121>>,
      <<102, 101, 101>>,
      <<116, 111, 116, 97, 108>>,
      <<118, 97, 108, 117, 101>>,
      <<98, 117, 100, 103, 101, 116>>,
      <<105, 110, 99, 111, 109, 101>>,
      <<115, 112, 101, 110, 100>>,
      <<99, 104, 97, 114, 103, 101>>,
      <<112, 97, 121, 109, 101, 110, 116>>>>

is_monetary_col(col) ==
    \E i \in DOMAIN COL_SEMANTIC_monetary : Contains(Lower(col), COL_SEMANTIC_monetary[i])

NoValue == <<0, 0>>

\* pd.to_numeric(series, errors = "coerce").dropna(): the numbers of the column
to_numeric(cells) ==
    LET nums == SelectSeq(cells, LAMBDA c : c.k = "num")
    IN  [i \in DOMAIN nums |-> nums[i].n]

\* numeric.mean() of a non-empty series
Mean(nums) == Frac(SumSeq(nums), Len(nums))

\* [numeric.mean()] if len(numeric) > 0 and numeric.mean() > 0, else nothing
PositiveMean(cells) ==
    LET numeric == to_numeric(cells)
    IN  IF Len(numeric) > 0 /\ SumSeq(numeric) > 0 THEN <<Mean(numeric)>> ELSE <<>>

\* the override of the form: dfs[fname][col_norm], if both exist
OverrideValues(D, monetary_override) ==
    IF monetary_override = <<>> THEN <<>>
    ELSE LET fname    == monetary_override[1]
             col_norm == NormCol(monetary_override[2])
         IN  IF HasFrame(D, fname) /\ HasCol(Frame(D, fname), col_norm)
             THEN PositiveMean(Column(Frame(D, fname), col_norm))
             ELSE <<>>

\* the means of every monetary column of every dataset
DetectedValues(D) ==
    Concat([i \in DOMAIN D |->
        Concat([c \in DOMAIN D[i].columns |->
            IF is_monetary_col(D[i].columns[c])
            THEN PositiveMean(Column(D[i], D[i].columns[c]))
            ELSE <<>>])])

avg_values(D, monetary_override) ==
    IF OverrideValues(D, monetary_override) # <<>> THEN OverrideValues(D, monetary_override)
    ELSE DetectedValues(D)

\* sum(avg_values) / len(avg_values)
avg_val(D, monetary_override) ==
    LET av == avg_values(D, monetary_override)
        s  == FracSum(av)
    IN  IF av = <<>> THEN NoValue ELSE Frac(s[1], s[2] * Len(av))

\* the value at full weight, whatever the risk factor
ScaledFullWeight(count, v, num, den) == Frac(count * v[1], v[2])

\* count * avg_val * num / den
Scaled(count, v, num, den) == Frac(count * v[1] * num, v[2] * den)

ImpactItems(orph, dup, gap, v) ==
    LET o == Take(orph, 2)
        d == Take(dup, 1)
        g == Take(gap, 1)
    IN  IF v = NoValue
        THEN [i \in DOMAIN o |->
                [label |-> <<"Orphan records", o[i].direction>>,
                 count |-> o[i].orphan_count,
                 value |-> NoValue,
                 risk  |-> "records unaccounted for"]]
        ELSE [i \in DOMAIN o |->
                [label |-> <<"Unlinked records", o[i].direction>>,
                 count |-> o[i].orphan_count,
                 value |-> Scaled(o[i].orphan_count, v, 1, 1),
                 risk  |-> "Revenue leakage / reporting gap"]]
             \o
             [i \in DOMAIN d |->
                [label |-> <<"Duplicate entities", d[i].file>>,
                 count |-> d[i].duplicate_count,
                 value |-> Scaled(d[i].duplicate_count, v, 2, 5),
                 risk  |-> "Double billing / inflated pipeline risk"]]
             \o
             [i \in DOMAIN g |->
                [label |-> <<"Process gap", g[i].stage_from \o OneWay \o g[i].stage_to>>,
                 count |-> g[i].missing_count,
                 value |-> Scaled(g[i].missing_count, v, 1, 1),
                 risk  |-> "Stalled workflow / SLA breach"]]

\* impact; total is NoValue where the code sets no "total" key
estimate_monetary_impact(D, orph, dup, gap, monetary_override) ==
    LET v     == avg_val(D, monetary_override)
        items == ImpactItems(orph, dup, gap, v)
    IN  [has_monetary |-> v # NoValue,
         avg_value    |-> v,
         items        |-> items,
         total        |-> IF v = NoValue THEN NoValue
                          ELSE FracSum([i \in DOMAIN items |-> items[i].value])]

-----------------------------------------------------------------------------
\* the frame pd.read_csv gives for an uploaded file, columns normalised
ReadFrame(f) ==
    [name    |-> StripCsv(f.name),
     columns |-> [i \in DOMAIN f.columns |-> NormCol(f.columns[i])],
     rows    |-> f.rows]

\* dfs[name] = df: a new key goes last, a known key keeps its place
DictSet(D, df) ==
    IF HasFrame(D, df.name)
    THEN [i \in DOMAIN D |-> IF D[i].name = df.name THEN df ELSE D[i]]
    ELSE Append(D, df)

\* joins + the user joins whose (file_a, file_b) no inferred candidate has
MergeUserJoins(J, user_joins) ==
    LET existing == {<<J[i].file_a, J[i].file_b>> : i \in DOMAIN J}
    IN  J \o SelectSeq(user_joins, LAMBDA uj : <<uj.file_a, uj.file_b>> \notin existing)

\* for f in uploaded_files: try: dfs[name] = pd.read_csv(f)
LoadOk ==
    /\ pc = "load"
    /\ loaded < Len(files)
    /\ files[loaded + 1].ok
    /\ dfs' = DictSet(dfs, ReadFrame(files[loaded + 1]))
    /\ loaded' = loaded + 1
    /\ UNCHANGED <<files, cfg, now, pc, errors, joins, orphans, dupes, gaps, score_data, impact, shown>>

\* except Exception as e: errors.append(...)
LoadFail ==
    /\ pc = "load"
    /\ loaded < Len(files)
    /\ ~files[loaded + 1].ok
    /\ errors' = Append(errors, files[loaded + 1].name)
    /\ loaded' = loaded + 1
    /\ UNCHANGED <<files, cfg, now, pc, dfs, joins, orphans, dupes, gaps, score_data, impact, shown>>

\* if not dfs: return None, errors
NoResult ==
    /\ pc = "load"
    /\ loaded = Len(files)
    /\ dfs = <<>>
    /\ pc' = "none"
    /\ UNCHANGED <<files, cfg, now, loaded, dfs, errors, joins, orphans, dupes, gaps, score_data, impact, shown>>

\* joins = detect_join_keys(dfs), then the merge of cfg["user_joins"]
DetectJoins ==
    /\ pc = "load"
    /\ loaded = Len(files)
    /\ dfs # <<>>
    /\ joins' = MergeUserJoins(detect_join_keys(dfs), cfg.user_joins)
    /\ pc' = "orphans"
    /\ UNCHANGED <<files, cfg, now, loaded, dfs, errors, orphans, dupes, gaps, score_data, impact, shown>>

\* check_orphan_records dropping the rows of the first dataset in place
CheckOrphansDroppingRows ==
    /\ pc = "orphans"
    /\ orphans' = check_orphan_records(dfs, joins)
    /\ dfs' = [dfs EXCEPT ![1].rows = <<>>]
    /\ pc' = "dupes"
    /\ UNCHANGED <<files, cfg, now, loaded, errors, joins, dupes, gaps, score_data, impact, shown>>

CheckOrphans ==
    /\ pc = "orphans"
    /\ orphans' = check_orphan_records(dfs, joins)
    /\ pc' = "dupes"
    /\ UNCHANGED <<files, cfg, now, loaded, dfs, errors, joins, dupes, gaps, score_data, impact, shown>>

CheckDuplicates ==
    /\ pc = "dupes"
    /\ dupes' = check_entity_duplicates(dfs)
    /\ pc' = "gaps"
    /\ UNCHANGED <<files, cfg, now, loaded, dfs, errors, joins, orphans, gaps, score_data, impact, shown>>

CheckGaps ==
    /\ pc = "gaps"
    /\ gaps' = check_process_gaps(dfs, joins)
    /\ pc' = "scores"
    /\ UNCHANGED <<files, cfg, now, loaded, dfs, errors, joins, orphans, dupes, score_data, impact, shown>>

CalculateScores ==
    /\ pc = "scores"
    /\ score_data' = calculate_scores(dfs, orphans, dupes, gaps, Len(dfs), now)
    /\ pc' = "done"
    /\ UNCHANGED <<files, cfg, now, loaded, dfs, errors, joins, orphans, dupes, gaps, impact, shown>>

\* impact = estimate_monetary_impact(dfs, orphans, dupes, gaps, monetary_override),
\* after which run_analysis returns the result bundle
EstimateImpact ==
    /\ pc = "done"
    /\ impact' = estimate_monetary_impact(dfs, orphans, dupes, gaps, cfg.monetary)
    /\ pc' = "returned"
    /\ UNCHANGED <<files, cfg, now, loaded, dfs, errors, joins, orphans, dupes, gaps, score_data, shown>>

Next ==
    \/ LoadOk
    \/ LoadFail
    \/ NoResult
    \/ DetectJoins
    \/ CheckOrphans
    \/ CheckDuplicates
    \/ CheckGaps
    \/ CalculateScores
    \/ EstimateImpact

\* the state run_analysis starts in, for given uploads, form and clock
Start(inp) ==
    /\ files = inp.files
    /\ cfg = inp.cfg
    /\ now = inp.now
    /\ pc = "load"
    /\ loaded = 0
    /\ dfs = <<>>
    /\ errors = <<>>
    /\ joins = <<>>
    /\ orphans = <<>>
    /\ dupes = <<>>
    /\ gaps = <<>>
    /\ score_data = <<>>
    /\ impact = <<>>
    /\ shown = <<>>

-----------------------------------------------------------------------------
(* The texts of the inputs                                                 *)

\* "orders.csv"
T_orders_csv == <<111, 114, 100, 101, 114, 115, 46, 99, 115, 118>>

\* "customers.csv"
T_customers_csv == <<99, 117, 115, 116, 111, 109, 101, 114, 115, 46, 99, 115, 118>>

\* "leads.csv"
T_leads_csv == <<108, 101, 97, 100, 115, 46, 99, 115, 118>>

\* "conversions.csv"
T_conversions_csv == <<99, 111, 110, 118, 101, 114, 115, 105, 111, 110, 115, 46, 99, 115, 118>>

\* "payments.csv"
T_payments_csv == <<112, 97, 121, 109, 101, 110, 116, 115, 46, 99, 115, 118>>

\* "data_a.csv"
T_data_a_csv == <<100, 97, 116, 97, 95, 97, 46, 99, 115, 118>>

\* "data_b.csv"
T_data_b_csv == <<100, 97, 116, 97, 95, 98, 46, 99, 115, 118>>

\* "Orders.CSV"
T_Orders_CSV == <<79, 114, 100, 101, 114, 115, 46, 67, 83, 86>>

\* "broken.csv"
T_broken_csv == <<98, 114, 111, 107, 101, 110, 46, 99, 115, 118>>

\* "orders"
T_orders == <<111, 114, 100, 101, 114, 115>>

\* "customers"
T_customers == <<99, 117, 115, 116, 111, 109, 101, 114, 115>>

\* "leads"
T_leads == <<108, 101, 97, 100, 115>>

\* "conversions"
T_conversions == <<99, 111, 110, 118, 101, 114, 115, 105, 111, 110, 115>>

\* "payments"
T_payments == <<112, 97, 121, 109, 101, 110, 116, 115>>

\* "Customer ID"
T_Customer_ID == <<67, 117, 115, 116, 111, 109, 101, 114, 32, 73, 68>>

\* "customer_id"
T_customer_id == <<99, 117, 115, 116, 111, 109, 101, 114, 95, 105, 100>>

\* "id"
T_id == <<105, 100>>

\* "order_id"
T_order_id == <<111, 114, 100, 101, 114, 95, 105, 100>>

\* "orderid"
T_orderid == <<111, 114, 100, 101, 114, 105, 100>>

\* "name"
T_name == <<110, 97, 109, 101>>

\* "amount"
T_amount == <<97, 109, 111, 117, 110, 116>>

\* "created"
T_created == <<99, 114, 101, 97, 116, 101, 100>>

\* "status"
T_status == <<115, 116, 97, 116, 117, 115>>

\* "notes"
T_notes == <<110, 111, 116, 101, 115>>

\* "qty"
T_qty == <<113, 116, 121>>

\* "ref"
T_ref == <<114, 101, 102>>

\* "customer"
T_customer == <<99, 117, 115, 116, 111, 109, 101, 114>>

\* "azzzzzz"
T_azzzzzz == <<97, 122, 122, 122, 122, 122, 122>>

\* "bzzzzzz"
T_bzzzzzz == <<98, 122, 122, 122, 122, 122, 122>>

\* "updated"
T_updated == <<117, 112, 100, 97, 116, 101, 100>>

\* "Acme Corp"
T_Acme_Corp == <<65, 99, 109, 101, 32, 67, 111, 114, 112>>

\* "ACME CORP"
T_ACME_CORP == <<65, 67, 77, 69, 32, 67, 79, 82, 80>>

\* "John Smith"
T_John_Smith == <<74, 111, 104, 110, 32, 83, 109, 105, 116, 104>>

\* "Jon Smith"
T_Jon_Smith == <<74, 111, 110, 32, 83, 109, 105, 116, 104>>

\* "x"
T_x == <<120>>

\* "aaaaaaaaaaaaaaaaaaaabbb"
T_long_a == <<97, 97, 97, 97, 97, 97, 97, 97, 97, 97, 97, 97, 97, 97, 97, 97, 97, 97, 97, 97, 98, 98, 98>>

\* "aaaaaaaaaaaaaaaaaaaacccc"
T_long_b == <<97, 97, 97, 97, 97, 97, 97, 97, 97, 97, 97, 97, 97, 97, 97, 97, 97, 97, 97, 97, 99, 99, 99, 99>>
\* "order_items.csv"
T_order_items_csv == <<111, 114, 100, 101, 114, 95, 105, 116, 101, 109, 115, 46, 99, 115, 118>>

\* "order_items"
T_order_items == <<111, 114, 100, 101, 114, 95, 105, 116, 101, 109, 115>>

\* "cust"
T_cust == <<99, 117, 115, 116>>

\* "y"
T_y == <<121>>

\* "data_a"
T_data_a == <<100, 97, 116, 97, 95, 97>>

\* "data_b"
T_data_b == <<100, 97, 116, 97, 95, 98>>

\* "broken2.csv"
T_broken2_csv == <<98, 114, 111, 107, 101, 110, 50, 46, 99, 115, 118>>
-----------------------------------------------------------------------------
(* The inputs: uploads of one or two CSV files, the form's user joins and  *)
(* the clock.  An uploaded file is [name, ok, columns, rows]: ok is        *)
(* whether pd.read_csv reads it, columns is its header as written.         *)

\* rows of the enumerated small frames
MaxRows == 2

\* rows of the frames of the validity cases
MaxScoreRows == 7

\* the day run_analysis runs, in days since the epoch
Today == 20000

\* monetary_override is None
NoOverride == <<>>

NoForm == [user_joins |-> <<>>, monetary |-> NoOverride]

Input(fs, uj) == [files |-> fs, cfg |-> [user_joins |-> uj, monetary |-> NoOverride], now |-> Today]

File(fname, header, rws) == [name |-> fname, ok |-> TRUE, columns |-> header, rows |-> rws]

Unreadable(fname) == [name |-> fname, ok |-> FALSE, columns |-> <<>>, rows |-> <<>>]

\* a file of one column
OneCol(fname, col, cells) == File(fname, <<col>>, [i \in DOMAIN cells |-> <<cells[i]>>])

\* a file of two columns of the same length
TwoCol(fname, c1, cells1, c2, cells2) ==
    File(fname, <<c1, c2>>, [i \in DOMAIN cells1 |-> <<cells1[i], cells2[i]>>])

SeqsUpTo(S, n) == UNION {[1..k -> S] : k \in 0..n}

KeyCells == {Null, Num(1), Num(2)}

\* the key columns of the second file of a pair
SecondCols ==
    { <<>>, <<Null>>, <<Num(1)>>, <<Num(1), Num(2)>>, <<Num(2), Null>>, <<Num(1), Num(1)>>,
      <<Num(2), Num(1), Num(3)>> }

\* the join the assessment form adds for (fa.ca, fb.cb)
UserJoin(fa, ca, fb, cb) ==
    [key |-> ca, file_a |-> fa, file_b |-> fb, col_a |-> ca, col_b |-> cb]

\* pairs of one-column files: [the two files' names and headers, user joins]
PairSchemas ==
    { [fa |-> T_orders_csv, ca |-> T_customer_id, fb |-> T_customers_csv, cb |-> T_customer_id,
       uj |-> <<>>],
      [fa |-> T_customers_csv, ca |-> T_customer_id, fb |-> T_orders_csv, cb |-> T_customer_id,
       uj |-> <<>>],
      [fa |-> T_leads_csv, ca |-> T_id, fb |-> T_conversions_csv, cb |-> T_id,
       uj |-> <<>>],
      [fa |-> T_orders_csv, ca |-> T_order_id, fb |-> T_payments_csv, cb |-> T_orderid,
       uj |-> <<>>],
      [fa |-> T_payments_csv, ca |-> T_orderid, fb |-> T_orders_csv, cb |-> T_order_id,
       uj |-> <<>>],
      [fa |-> T_orders_csv, ca |-> T_customer_id, fb |-> T_customers_csv, cb |-> T_id,
       uj |-> <<UserJoin(T_orders, T_customer_id, T_customers, T_id)>>],
      [fa |-> T_orders_csv, ca |-> T_customer_id, fb |-> T_customers_csv, cb |-> T_id,
       uj |-> <<>>],
      [fa |-> T_data_a_csv, ca |-> T_id, fb |-> T_data_b_csv, cb |-> T_id,
       uj |-> <<>>],
      [fa |-> T_Orders_CSV, ca |-> T_Customer_ID, fb |-> T_customers_csv, cb |-> T_customer_id,
       uj |-> <<>>] }

PairInputs ==
    { Input(<<OneCol(s.fa, s.ca, x), OneCol(s.fb, s.cb, y)>>, s.uj) :
        s \in PairSchemas, x \in SeqsUpTo(KeyCells, MaxRows), y \in SecondCols }
    \cup
    { Input(<<OneCol(s.fa, s.ca, y), OneCol(s.fb, s.cb, x)>>, s.uj) :
        s \in PairSchemas, x \in SeqsUpTo(KeyCells, MaxRows), y \in SecondCols }

\* the cells lo, lo + 1, .., hi followed by reps more cells lo
RangeCells(lo, hi, reps) ==
    [i \in 1..(hi - lo + 1 + reps) |-> IF i <= hi - lo + 1 THEN Num(lo + i - 1) ELSE Num(lo)]

\* pairs of one-column files holding ranges: Scenario A (orders 1..100 against
\* customers 1..80, with and without the form's join), Scenario D (leads and
\* conversions 1..100), and shapes with repeated keys
RangeShapes ==
    { [fa |-> T_orders_csv, ca |-> T_customer_id, a |-> RangeCells(1, 100, 0),
       fb |-> T_customers_csv, cb |-> T_id, b |-> RangeCells(1, 80, 0),
       uj |-> <<UserJoin(T_orders, T_customer_id, T_customers, T_id)>>],
      [fa |-> T_orders_csv, ca |-> T_customer_id, a |-> RangeCells(1, 100, 0),
       fb |-> T_customers_csv, cb |-> T_id, b |-> RangeCells(1, 80, 0),
       uj |-> <<>>],
      [fa |-> T_orders_csv, ca |-> T_customer_id, a |-> RangeCells(1, 100, 0),
       fb |-> T_customers_csv, cb |-> T_customer_id, b |-> RangeCells(1, 80, 0),
       uj |-> <<>>],
      [fa |-> T_leads_csv, ca |-> T_id, a |-> RangeCells(1, 100, 0),
       fb |-> T_conversions_csv, cb |-> T_id, b |-> RangeCells(1, 100, 0),
       uj |-> <<>>],
      [fa |-> T_leads_csv, ca |-> T_id, a |-> RangeCells(1, 100, 0),
       fb |-> T_conversions_csv, cb |-> T_id, b |-> RangeCells(1, 90, 5),
       uj |-> <<>>],
      [fa |-> T_orders_csv, ca |-> T_customer_id, a |-> RangeCells(1, 34, 1),
       fb |-> T_customers_csv, cb |-> T_customer_id, b |-> RangeCells(1, 33, 0),
       uj |-> <<>>],
      [fa |-> T_orders_csv, ca |-> T_customer_id, a |-> RangeCells(1, 20, 0) \o <<Num(1000)>>,
       fb |-> T_customers_csv, cb |-> T_customer_id, b |-> RangeCells(1, 20, 0),
       uj |-> <<>>] }

RangeInputs == { Input(<<OneCol(s.fa, s.ca, s.a), OneCol(s.fb, s.cb, s.b)>>, s.uj) : s \in RangeShapes }

\* a customers file with an id and a name column
IdCells == {Null, Num(1), Num(5)}

NameCells == {Null, Str(T_Acme_Corp), Str(T_ACME_CORP), Str(T_John_Smith), Str(T_Jon_Smith)}

EntityInputs ==
    { Input(<<File(T_customers_csv, <<T_id, T_name>>, rws)>>, <<>>) :
        rws \in SeqsUpTo({<<i, n>> : i \in IdCells, n \in NameCells}, MaxRows) }

\* the rows (id, name) for the ids listed for one name
GroupRows(ids, nm) == [i \in DOMAIN ids |-> <<ids[i], Str(nm)>>]

GroupIds ==
    { <<>>, <<Num(1)>>, <<Num(1), Num(5)>>, <<Num(2), Num(2)>>, <<Num(3), Null>>,
      <<Num(1), Num(5), Null>>, [i \in 1..7 |-> Num(i)] }

\* customers files made of one group of rows per name
GroupInputs ==
    { Input(<<File(T_customers_csv, <<T_id, T_name>>,
                   GroupRows(g1, T_Acme_Corp) \o GroupRows(g2, T_John_Smith)
                   \o GroupRows(g3, T_Jon_Smith))>>, <<>>) :
        g1 \in GroupIds, g2 \in GroupIds, g3 \in GroupIds }
    \cup
    { Input(<<File(T_customers_csv, <<T_id, T_name>>,
                   GroupRows(<<Num(1), Num(2)>>, T_long_a) \o GroupRows(g, T_long_b))>>, <<>>) :
        g \in GroupIds }

\* the columns of the validity and timeliness cases, n rows each
ScoreColumns(n) ==
    { [col |-> T_notes,  cells |-> [i \in 1..n |-> Null]],
      [col |-> T_status, cells |-> [i \in 1..n |-> Str(T_x)]],
      [col |-> T_qty,    cells |-> [i \in 1..n |-> Num(7)]],
      [col |-> T_qty,    cells |-> [i \in 1..n |-> Num(i)]],
      [col |-> T_status, cells |-> [i \in 1..n |-> IF i = 1 THEN Null ELSE Str(T_x)]] }
    \cup
    { [col |-> T_amount, cells |-> [i \in 1..n |-> IF i <= k THEN Num(-5) ELSE Num(10 + i)]] :
        k \in 0..n }
    \cup
    { [col |-> T_created,
       cells |-> [i \in 1..n |-> IF i = 1 THEN Date(Today - age)
                                 ELSE IF i = 2 THEN second
                                 ELSE Date(Today - age - i)]] :
        age \in {3, 20, 60, 200, 400},
        second \in {Null, Str(T_x), Date(Today + 1), Date(Today - 500)} }

ScoreInputs ==
    { Input(<<File(T_orders_csv, <<c.col>>, [i \in DOMAIN c.cells |-> <<c.cells[i]>>])>>, <<>>) :
        c \in UNION {ScoreColumns(n) : n \in 1..MaxScoreRows} }
    \cup
    UNION { { Input(<<TwoCol(T_orders_csv, T_id, [i \in 1..n |-> Num(i)], c.col, c.cells)>>,
                    <<>>) : c \in ScoreColumns(n) } : n \in 1..MaxScoreRows }

\* uploads with a monetary override of the form
InputM(fs, uj, mon) == [files |-> fs, cfg |-> [user_joins |-> uj, monetary |-> mon], now |-> Today]

\* the key columns of the files of a pipeline of three
StageCols == { <<Num(1)>>, <<Num(1), Num(2)>>, <<Num(2), Num(3), Num(4)>> }

\* three uploads in input order: keyword ranks that differ, ranks that tie,
\* names without a keyword
StageNames ==
    { <<T_customers_csv, T_payments_csv, T_orders_csv>>,
      <<T_payments_csv, T_leads_csv, T_orders_csv>>,
      <<T_data_a_csv, T_data_b_csv, T_customers_csv>>,
      <<T_orders_csv, T_order_items_csv, T_payments_csv>>,
      <<T_order_items_csv, T_orders_csv, T_leads_csv>>,
      <<T_customers_csv, T_orders_csv, T_data_a_csv>> }

StageInputs ==
    { Input(<<OneCol(n[1], T_id, x), OneCol(n[2], T_id, y), OneCol(n[3], T_id, z)>>, <<>>) :
        n \in StageNames, x \in StageCols, y \in StageCols, z \in StageCols }

\* columns of few and of many distinct values: 4 rows of one value, 2 rows
\* of 2 values, no row, 10 rows of 3 values (0.3 of the rows), 10 rows of 4
CardCols ==
    { [i \in 1..4 |-> Num(7)],
      <<Num(1), Num(2)>>,
      <<>>,
      [i \in 1..10 |-> Num(1 + (i % 3))],
      [i \in 1..10 |-> Num(1 + (i % 4))] }

\* three uploads sharing a column that is not named like an identifier; the
\* third upload has it under that name or another
CardInputs ==
    { Input(<<OneCol(T_orders_csv, T_status, x), OneCol(T_customers_csv, T_status, y),
              OneCol(T_leads_csv, c, z)>>, <<>>) :
        x \in CardCols, y \in CardCols, z \in CardCols, c \in {T_status, T_qty} }

\* orders (Customer ID, cust) and customers (id), with the joins of the form:
\* one naming the header as written (absent once the columns are
\* normalised), one naming cust
AbsentJoin == UserJoin(T_orders, T_Customer_ID, T_customers, T_id)

CustJoin == UserJoin(T_orders, T_cust, T_customers, T_id)

FormJoinInputs ==
    { Input(<<TwoCol(T_orders_csv, T_Customer_ID, x, T_cust, x),
              OneCol(T_customers_csv, T_id, y)>>, uj) :
        x \in {<<Num(1), Num(2)>>, <<Num(1), Num(1)>>},
        y \in {<<Num(1)>>, <<Num(1), Num(2)>>, <<Num(3)>>},
        uj \in {<<AbsentJoin, CustJoin>>, <<CustJoin, AbsentJoin>>, <<AbsentJoin>>,
                <<CustJoin>>} }

\* orders (order_id, status) and payments (orderid, status): the pair has a
\* fuzzy candidate, and an exact-name candidate on status that is either
\* detected (many distinct values) or named on the form
StatusCols ==
    { [a |-> [i \in 1..4 |-> Str(T_x)], b |-> [i \in 1..4 |-> Str(T_y)]],
      [a |-> <<Str(T_x), Str(T_y), Str(T_x), Str(T_y)>>, b |-> [i \in 1..4 |-> Str(T_y)]],
      [a |-> [i \in 1..4 |-> Str(T_x)], b |-> [i \in 1..4 |-> Str(T_x)]] }

BothKindsInputs ==
    { Input(<<TwoCol(T_orders_csv, T_order_id, RangeCells(1, 4, 0), T_status, st.a),
              TwoCol(T_payments_csv, T_orderid, RangeCells(1, hi, 4 - hi), T_status, st.b)>>, uj) :
        st \in StatusCols, hi \in {3, 4},
        uj \in {<<>>, <<UserJoin(T_payments, T_status, T_orders, T_status)>>} }

\* orders (customer_id, amount) against customers (customer_id), with and
\* without a monetary override
ImpactInputs ==
    { InputM(<<TwoCol(T_orders_csv, T_customer_id, <<Num(1), Num(2), Num(3)>>, T_amount, a),
               TwoCol(T_customers_csv, T_customer_id, <<Num(1), Num(1), Null>>, T_qty, q)>>,
             <<>>, mon) :
        a \in {<<Num(10), Num(20), Num(40)>>, <<Num(-5), Num(5), Null>>, <<Null, Null, Null>>},
        q \in {<<Num(3), Num(4), Null>>, <<Str(T_x), Str(T_x), Str(T_x)>>},
        mon \in {NoOverride, <<T_customers, T_qty>>, <<T_orders, T_notes>>,
                 <<T_leads, T_amount>>} }

\* the cells of an identifier column and of a name column, three rows each
IdColumns == { <<Num(1), Num(5), Num(5)>>, <<Num(7), Num(7), Num(7)>> }

NameColumns ==
    { <<Str(T_Acme_Corp), Str(T_Acme_Corp), Str(T_Acme_Corp)>>,
      <<Str(T_John_Smith), Str(T_Jon_Smith), Str(T_Jon_Smith)>> }

\* a file of the given headers and columns (all of the same length)
FileOfCols(fname, heads, cols) ==
    File(fname, heads, [r \in DOMAIN cols[1] |-> [c \in DOMAIN cols |-> cols[c][r]]])

\* customers files with several identifier-like and several name-like
\* columns, in different column orders, and files lacking one of the kinds
ManyColInputs ==
    { Input(<<FileOfCols(T_customers_csv, h, <<i1, n1, i2, n2>>)>>, <<>>) :
        h \in { <<T_id, T_name, T_ref, T_customer>>, <<T_ref, T_customer, T_id, T_name>> },
        i1 \in IdColumns, n1 \in NameColumns, i2 \in IdColumns, n2 \in NameColumns }
    \cup
    { Input(<<FileOfCols(T_customers_csv, h, <<n1, n2, i1, i2>>)>>, <<>>) :
        h \in { <<T_name, T_customer, T_id, T_ref>>, <<T_customer_id, T_name, T_id, T_ref>>,
                <<T_customer, T_name, T_qty, T_status>>, <<T_customer_id, T_order_id, T_id, T_ref>> },
        i1 \in IdColumns, n1 \in NameColumns, i2 \in IdColumns, n2 \in NameColumns }

\* the i-th of the two-character names "b0", "b1", ... that sort between
\* "azzzzzz" and "bzzzzzz"
Filler(i) == <<98, 47 + i>>

\* the names "azzzzzz" and "bzzzzzz" (ratio 12/14) with k other names between
\* them in sorted order, listed after them in the file
WindowNames(k) == <<Str(T_bzzzzzz), Str(T_azzzzzz)>> \o [i \in 1..k |-> Str(Filler(i))]

\* customers files whose two similar names are WINDOW - 1, WINDOW and
\* WINDOW + 1 places apart in the sorted name list
WindowInputs ==
    { Input(<<TwoCol(T_customers_csv, T_id, [i \in 1..(k + 2) |-> Num(i)],
                     T_name, WindowNames(k))>>, <<>>) :
        k \in {WINDOW - 2, WINDOW - 1, WINDOW} }

\* orders (id, amount), customers (id, name) and payments (id): runs with
\* more than two orphan findings, two duplicate findings and two gap findings
ManyFindingsInputs ==
    { Input(<<FileOfCols(T_orders_csv, <<T_id, T_amount>>, <<<<Num(1), Num(2), Num(3)>>, a>>),
              FileOfCols(T_customers_csv, <<T_id, T_name>>,
                         <<<<Num(1), Num(5), Num(5)>>,
                           <<Str(T_Jon_Smith), Str(T_Jon_Smith), Str(n)>>>>),
              OneCol(T_payments_csv, T_id, p)>>, <<>>) :
        a \in {<<Num(10), Num(20), Num(40)>>, <<Num(3), Num(4), Num(4)>>},
        n \in {T_John_Smith, T_Jon_Smith},
        p \in {<<Num(1), Num(4)>>, <<Num(1), Num(2), Num(3)>>, <<Num(7)>>} }

\* the ages on both sides of every tier boundary, and tomorrow
BoundaryAges == {-1, 0, 6, 7, 29, 30, 89, 90, 364, 365}

\* orders files whose column created holds one date of a boundary age,
\* alone, with an older date, or with a second column updated of future dates
AgeInputs ==
    { Input(<<OneCol(T_orders_csv, T_created, <<Date(Today - age)>> \o older)>>, <<>>) :
        age \in BoundaryAges, older \in {<<>>, <<Date(Today - 500), Str(T_x)>>} }
    \cup
    { Input(<<TwoCol(T_orders_csv, T_created, <<Date(Today - age), Null>>,
                     T_updated, <<Date(Today + 2), Date(Today + 3)>>)>>, <<>>) :
        age \in BoundaryAges }

\* orders with the ids 1..n against customers with the ids 1..n-1: one
\* orphan and one missing key, 100/n percent of the source
FewOrphansInputs ==
    { Input(<<OneCol(T_orders_csv, T_id, [i \in 1..n |-> Num(i)]),
              OneCol(T_customers_csv, T_id, [i \in 1..(n - 1) |-> Num(i)])>>, <<>>) :
        n \in {19, 20, 21} }

\* uploads with files that cannot be read
FailInputs ==
    { Input(<<Unreadable(T_broken_csv)>>, <<>>),
      Input(<<>>, <<>>),
      Input(<<Unreadable(T_broken_csv),
              OneCol(T_orders_csv, T_customer_id, <<Num(1), Num(2)>>)>>, <<>>),
      Input(<<OneCol(T_orders_csv, T_customer_id, <<Num(1), Num(2)>>),
              Unreadable(T_broken_csv),
              OneCol(T_customers_csv, T_customer_id, <<Num(1)>>)>>, <<>>),
      Input(<<Unreadable(T_broken_csv), Unreadable(T_broken2_csv)>>, <<>>),
      Input(<<Unreadable(T_broken_csv), Unreadable(T_broken_csv)>>, <<>>),
      Input(<<OneCol(T_orders_csv, T_customer_id, <<Num(1), Num(2)>>),
              OneCol(T_orders_csv, T_customer_id, <<Num(3)>>)>>, <<>>),
      Input(<<OneCol(T_orders_csv, T_customer_id, <<Num(1), Num(2)>>),
              Unreadable(T_orders_csv),
              OneCol(T_customers_csv, T_customer_id, <<Num(1)>>),
              OneCol(T_orders_csv, T_id, <<Num(3)>>)>>, <<>>) }

Inputs == PairInputs \cup RangeInputs \cup EntityInputs \cup GroupInputs
          \cup ScoreInputs \cup FailInputs \cup StageInputs \cup CardInputs
          \cup FormJoinInputs \cup BothKindsInputs \cup ImpactInputs
          \cup ManyColInputs \cup WindowInputs
          \cup ManyFindingsInputs \cup AgeInputs \cup FewOrphansInputs

Init == \E inp \in Inputs : Start(inp)

Spec == Init /\ [][Next]_vars

-----------------------------------------------------------------------------
(* Label helpers (scoring.py, app.py).  Scores are in tenths of a point.   *)

\* score_label(s): the label and its colour
score_label(s) ==
    IF s = None THEN <<"N/A", "#6E7681">>
    ELSE IF s >= 850 THEN <<"Excellent", "#3FB950">>
    ELSE IF s >= 750 THEN <<"Good", "#56D364">>
    ELSE IF s >= 650 THEN <<"Fair", "#E3B341">>
    ELSE IF s >= 500 THEN <<"Poor", "#F0883E">>
    ELSE <<"Critical", "#F85149">>

\* the grades with B starting at 80
overall_grade_B_from_80(s) ==
    IF s >= 850 THEN <<"A", "#3FB950">>
    ELSE IF s >= 800 THEN <<"B", "#56D364">>
    ELSE IF s >= 650 THEN <<"C", "#E3B341">>
    ELSE IF s >= 500 THEN <<"D", "#F0883E">>
    ELSE <<"F", "#F85149">>

\* overall_grade(s): the letter grade and its colour
overall_grade(s) ==
    IF s >= 850 THEN <<"A", "#3FB950">>
    ELSE IF s >= 750 THEN <<"B", "#56D364">>
    ELSE IF s >= 650 THEN <<"C", "#E3B341">>
    ELSE IF s >= 500 THEN <<"D", "#F0883E">>
    ELSE <<"F", "#F85149">>

\* score_color(s) of app.py
score_color(s) ==
    IF s = None THEN "#6E7681"
    ELSE IF s >= 850 THEN "#3FB950"
    ELSE IF s >= 750 THEN "#56D364"
    ELSE IF s >= 650 THEN "#E3B341"
    ELSE IF s >= 500 THEN "#F0883E"
    ELSE "#F85149"

\* the largest composite score shown, in tenths
MaxShownScore == 920

\* a result bundle with the composite score s, handed to the report
ReportInit ==
    \E s \in 0..MaxShownScore :
        /\ files = <<>>
        /\ cfg = NoForm
        /\ now = Today
        /\ pc = "report"
        /\ loaded = 0
        /\ dfs = <<>>
        /\ errors = <<>>
        /\ joins = <<>>
        /\ orphans = <<>>
        /\ dupes = <<>>
        /\ gaps = <<>>
        /\ score_data = [scores |-> [overall |-> s]]
        /\ impact = <<>>
        /\ shown = <<>>

\* generate_html_report: grade, gc = overall_grade(overall);
\* lbl, lc = score_label(overall); the score itself in score_color(overall)
generate_html_report ==
    /\ pc = "report"
    /\ shown' = [grade |-> overall_grade(score_data.scores.overall)[1],
                 gc    |-> overall_grade(score_data.scores.overall)[2],
                 lbl   |-> score_label(score_data.scores.overall)[1],
                 lc    |-> score_label(score_data.scores.overall)[2],
                 color |-> score_color(score_data.scores.overall)]
    /\ pc' = "shown"
    /\ UNCHANGED <<files, cfg, now, loaded, dfs, errors, joins, orphans, dupes, gaps,
                   score_data, impact>>

ReportNext == generate_html_report

ReportSpec == ReportInit /\ [][ReportNext]_vars

-----------------------------------------------------------------------------
(* Properties                                                              *)

AfterOrphans == pc \in {"dupes", "gaps", "scores", "done", "returned"}

AfterDuplicates == pc \in {"gaps", "scores", "done", "returned"}

AfterGaps == pc \in {"scores", "done", "returned"}

Frames == Range(dfs)

\* v is n / d rounded to the nearest integer (a tie may have gone either way)
IsRounded(v, n, d) == 2 * Abs(v * d - n) <= d

\* the column has a non-null value in more than one row
HasRepeats(df, col) ==
    \E r1, r2 \in DOMAIN df.rows :
        /\ r1 # r2
        /\ Column(df, col)[r1].k # "null"
        /\ Column(df, col)[r1] = Column(df, col)[r2]

\* C1: after calculate_scores the composite score and the completeness score
\* both lie in [0, 92].
C1_CompositeAndCompletenessWithin92 ==
    pc = "done" =>
        /\ score_data.scores.overall \in 0..920
        /\ score_data.scores.completeness \in 0..920

\* the clamp at 92 is what bounds both: the data is complete (93 before the
\* clamp) and the weighted average exceeds 92
C1_Witness ==
    /\ pc = "done"
    /\ score_data.scores.completeness = 920
    /\ score_data.scores.overall = 920
    /\ NonNullCells(dfs[1]) = Len(dfs[1].rows) * Len(dfs[1].columns)
    /\ Len(dfs[1].rows) > 0

\* C2: every orphan finding's pct_of_source is orphan_count over the number
\* of rows of the source dataset, times 100, to one decimal; also when the
\* source key column repeats values.
C2_OrphanPctOfSourceRows ==
    AfterOrphans =>
        \A i \in DOMAIN orphans :
            \E source, target \in Frames :
                /\ orphans[i].direction = source.name \o OneWay \o target.name
                /\ Len(source.rows) > 0
                /\ IsRounded(orphans[i].pct_of_source,
                             1000 * orphans[i].orphan_count, Len(source.rows))

\* a finding whose source key column repeats values, so that the share of the
\* distinct values would be another number
C2_Witness ==
    /\ AfterOrphans
    /\ \E i \in DOMAIN orphans : \E source, target \in Frames :
        /\ orphans[i].direction = source.name \o OneWay \o target.name
        /\ HasCol(source, orphans[i].key)
        /\ HasRepeats(source, orphans[i].key)
        /\ ~IsRounded(orphans[i].pct_of_source, 1000 * orphans[i].orphan_count,
                      nunique(Column(source, orphans[i].key)))

\* the gap finding and the orphan finding of the same candidate and direction
SamePairAndDirection(g, o) ==
    /\ o.direction = g.stage_from \o OneWay \o g.stage_to
    /\ o.key = g.key

\* every gap finding's pct_of_upstream is missing_count over the number of
\* distinct non-null upstream keys, times 100, to one decimal
GapPctOfDistinctUpstream ==
    \A i \in DOMAIN gaps :
        LET up == Frame(dfs, gaps[i].stage_from)
        IN  \E j \in DOMAIN joins : \E col \in {JoinColA(joins[j]), JoinColB(joins[j])} :
                /\ joins[j].key = gaps[i].key
                /\ HasCol(up, col)
                /\ nunique(Column(up, col)) > 0
                /\ gaps[i].missing_count <= nunique(Column(up, col))
                /\ IsRounded(gaps[i].pct_of_upstream, 1000 * gaps[i].missing_count,
                             nunique(Column(up, col)))

ScenarioA ==
    /\ HasFrame(dfs, T_orders) /\ HasFrame(dfs, T_customers)
    /\ LET o == Frame(dfs, T_orders)
           c == Frame(dfs, T_customers)
       IN  /\ HasCol(o, T_customer_id) /\ HasCol(c, T_id)
           /\ Len(o.rows) = 100
           /\ Range(Column(o, T_customer_id)) = {Num(i) : i \in 1..100}
           /\ Range(Column(c, T_id)) = {Num(i) : i \in 1..80}

\* the candidate pairs orders.customer_id with customers.id
LinksOrdersToCustomers(j) ==
    \/ /\ j.file_a = T_orders /\ JoinColA(j) = T_customer_id
       /\ j.file_b = T_customers /\ JoinColB(j) = T_id
    \/ /\ j.file_a = T_customers /\ JoinColA(j) = T_id
       /\ j.file_b = T_orders /\ JoinColB(j) = T_customer_id

\* direction "orders -> customers", orphan_count = 20, pct_of_source = 20.0
ScenarioAFinding(o) ==
    /\ o.direction = T_orders \o OneWay \o T_customers
    /\ o.orphan_count = 20
    /\ o.pct_of_source = 200

\* C5 as claimed: on Scenario A, detect_join_keys followed by
\* check_orphan_records reports "orders -> customers" with orphan_count 20
\* and pct_of_source 20.0.
C5_AsClaimed ==
    (AfterOrphans /\ ScenarioA /\ cfg.user_joins = <<>>)
    => \E i \in DOMAIN orphans : ScenarioAFinding(orphans[i])

\* C5, amended: on Scenario A detect_join_keys yields no candidate that pairs
\* customer_id with id; check_orphan_records reports the finding
\* "orders -> customers", 20, 20.0 exactly when the join list holds that
\* candidate (as it does when the form names the join).
C5_ScenarioAWithCandidate ==
    (AfterOrphans /\ ScenarioA) =>
        /\ cfg.user_joins = <<>> => \A j \in DOMAIN joins : ~LinksOrdersToCustomers(joins[j])
        /\ (\E j \in DOMAIN joins : LinksOrdersToCustomers(joins[j]))
           <=> (\E i \in DOMAIN orphans : ScenarioAFinding(orphans[i]))

\* Scenario A with the candidate in the join list and the finding reported
C5_Witness ==
    /\ AfterOrphans
    /\ ScenarioA
    /\ \E j \in DOMAIN joins : LinksOrdersToCustomers(joins[j])
    /\ \E i \in DOMAIN orphans : ScenarioAFinding(orphans[i])

\* ---- entity duplicates --------------------------------------------------

IsIdCol(c) == ID_PATTERNS(c)

IsNameCol(c) == NAME_PATTERNS(c) /\ ~ID_PATTERNS(c)

\* the dataset has an identifier column and a name column
HasEntityCols(df) ==
    /\ \E i \in DOMAIN df.columns : IsIdCol(df.columns[i])
    /\ \E i \in DOMAIN df.columns : IsNameCol(df.columns[i])

\* the first identifier column and the first name column
IdColOf(df) ==
    df.columns[CHOOSE i \in DOMAIN df.columns :
        IsIdCol(df.columns[i]) /\ \A k \in 1..(i - 1) : ~IsIdCol(df.columns[k])]

NameColOf(df) ==
    df.columns[CHOOSE i \in DOMAIN df.columns :
        IsNameCol(df.columns[i]) /\ \A k \in 1..(i - 1) : ~IsNameCol(df.columns[k])]

\* the identifier cells of the rows that carry the name v (a missing
\* identifier is the cell Null)
IdCellsSeenWith(df, v) ==
    {Column(df, IdColOf(df))[r] :
        r \in {x \in DOMAIN df.rows : Column(df, NameColOf(df))[x] = v}}

\* the distinct identifiers seen with the name v
IdsSeenWith(df, v) == {c \in IdCellsSeenWith(df, v) : c.k # "null"}

\* the name values that occur with more than one distinct identifier
NamesWithManyIds(df) ==
    {v \in Range(Column(df, NameColOf(df))) :
        v.k # "null" /\ Cardinality(IdsSeenWith(df, v)) > 1}

FindingsOf(df, type) == {i \in DOMAIN dupes : dupes[i].file = df.name /\ dupes[i].type = type}

NoRepeats(s) == \A i, j \in DOMAIN s : i # j => s[i] # s[j]

\* the finding is emitted iff some name has several identifiers, and its
\* duplicate_count is the number of such names
SameNameFindingIffManyIds(df) ==
    /\ FindingsOf(df, SameNameType) # {} <=> NamesWithManyIds(df) # {}
    /\ Cardinality(FindingsOf(df, SameNameType)) <= 1
    /\ \A i \in FindingsOf(df, SameNameType) :
        /\ dupes[i].duplicate_count = Cardinality(NamesWithManyIds(df))
        /\ Len(dupes[i].examples) = Min2(5, Cardinality(NamesWithManyIds(df)))
        /\ NoRepeats([e \in DOMAIN dupes[i].examples |-> dupes[i].examples[e].name])
        /\ \A e \in DOMAIN dupes[i].examples :
            dupes[i].examples[e].name \in NamesWithManyIds(df)

\* C6 as claimed: ... and each example group carries the name, the distinct
\* identifiers seen with it and their count.
C6_AsClaimed ==
    AfterDuplicates =>
        \A df \in Frames : HasEntityCols(df) =>
            /\ SameNameFindingIffManyIds(df)
            /\ \A i \in FindingsOf(df, SameNameType) :
                \A e \in DOMAIN dupes[i].examples :
                    LET ex == dupes[i].examples[e]
                    IN  /\ Range(ex.appears_with_ids) = IdsSeenWith(df, ex.name)
                        /\ ex.id_count = Len(ex.appears_with_ids)

\* C6, amended: the finding is emitted iff some name value occurs with more
\* than one distinct identifier and duplicate_count is the number of such
\* names; each example (at most 5) carries the name, the first at most 6
\* distinct identifier cells seen with it (a missing identifier among them)
\* and id_count, the number of its distinct non-missing identifiers.
C6_SameNameMultipleIds ==
    AfterDuplicates =>
        \A df \in Frames : HasEntityCols(df) =>
            /\ SameNameFindingIffManyIds(df)
            /\ \A i \in FindingsOf(df, SameNameType) :
                \A e \in DOMAIN dupes[i].examples :
                    LET ex == dupes[i].examples[e]
                    IN  /\ ex.id_count = Cardinality(IdsSeenWith(df, ex.name))
                        /\ NoRepeats(ex.appears_with_ids)
                        /\ Range(ex.appears_with_ids) \subseteq IdCellsSeenWith(df, ex.name)
                        /\ Len(ex.appears_with_ids)
                             = Min2(6, Cardinality(IdCellsSeenWith(df, ex.name)))

\* a finding of two names, one of them with seven identifiers of which the
\* example lists six
C6_Witness ==
    /\ AfterDuplicates
    /\ \E i \in DOMAIN dupes :
        /\ dupes[i].type = SameNameType
        /\ dupes[i].duplicate_count = 2
        /\ \E e \in DOMAIN dupes[i].examples :
            /\ dupes[i].examples[e].id_count = 7
            /\ Len(dupes[i].examples[e].appears_with_ids) = 6

\* the distinct name values, as text
NameTexts(df) ==
    LET cells == Column(df, NameColOf(df))
    IN  {astype_str(cells, cells[r]) : r \in {x \in DOMAIN cells : cells[x].k # "null"}}

\* a precedes b in the sorted names and b is among the values the window
\* compares a with
Compared(S, a, b) ==
    /\ StrLess(a, b)
    /\ Cardinality({c \in S : StrLess(a, c) /\ StrLess(c, b)}) <= WINDOW - 2

\* lengths at most 8 apart and 0.85 < r < 1.0, r the ratio of the
\* lower-cased values
IsFuzzyPair(a, b) ==
    LET r == ratio(Lower(a), Lower(b))
    IN  /\ Abs(Len(a) - Len(b)) <= MAX_LEN_DIFF
        /\ 100 * r[1] > 85 * r[2]
        /\ r[1] < r[2]

FuzzyPairsOf(df) ==
    {p \in NameTexts(df) \X NameTexts(df) :
        Compared(NameTexts(df), p[1], p[2]) /\ IsFuzzyPair(p[1], p[2])}

\* a compared pair is reported iff it is a fuzzy pair: the finding exists iff
\* there is such a pair, counts them all and lists the first five
FuzzyFindingIffPairs(df) ==
    /\ FindingsOf(df, FuzzyType) # {} <=> FuzzyPairsOf(df) # {}
    /\ Cardinality(FindingsOf(df, FuzzyType)) <= 1
    /\ \A i \in FindingsOf(df, FuzzyType) :
        /\ dupes[i].duplicate_count = Cardinality(FuzzyPairsOf(df))
        /\ Len(dupes[i].examples) = Min2(5, Cardinality(FuzzyPairsOf(df)))
        /\ NoRepeats([e \in DOMAIN dupes[i].examples |->
                        <<dupes[i].examples[e].value_a, dupes[i].examples[e].value_b>>])
        /\ \A e \in DOMAIN dupes[i].examples :
            <<dupes[i].examples[e].value_a, dupes[i].examples[e].value_b>> \in FuzzyPairsOf(df)

\* C7 as claimed: ... and every reported pair carries a similarity in
\* (0.85, 1.0).
C7_AsClaimed ==
    AfterDuplicates =>
        \A df \in Frames :
            (HasEntityCols(df) /\ Cardinality(NameTexts(df)) <= NAME_CAP) =>
                /\ FuzzyFindingIffPairs(df)
                /\ \A i \in FindingsOf(df, FuzzyType) :
                    \A e \in DOMAIN dupes[i].examples :
                        /\ dupes[i].examples[e].similarity > 85
                        /\ dupes[i].examples[e].similarity < 100

\* C7, amended: a compared pair is reported iff its lengths differ by at
\* most 8 and 0.85 < r < 1.0; the similarity a reported pair carries is r
\* rounded to two decimals, a number in [0.85, 1.0].
C7_FuzzyPairs ==
    AfterDuplicates =>
        \A df \in Frames :
            (HasEntityCols(df) /\ Cardinality(NameTexts(df)) <= NAME_CAP) =>
                /\ FuzzyFindingIffPairs(df)
                /\ \A i \in FindingsOf(df, FuzzyType) :
                    \A e \in DOMAIN dupes[i].examples :
                        LET ex == dupes[i].examples[e]
                            r  == ratio(Lower(ex.value_a), Lower(ex.value_b))
                        IN  /\ IsRounded(ex.similarity, 100 * r[1], r[2])
                            /\ ex.similarity >= 85
                            /\ ex.similarity <= 100

\* a reported pair whose ratio 40/47 lies above 0.85 and is carried as 0.85
C7_Witness ==
    /\ AfterDuplicates
    /\ \E i \in DOMAIN dupes :
        /\ dupes[i].type = FuzzyType
        /\ \E e \in DOMAIN dupes[i].examples :
            LET ex == dupes[i].examples[e]
                r  == ratio(Lower(ex.value_a), Lower(ex.value_b))
            IN  ex.similarity = 85 /\ 100 * r[1] > 85 * r[2]

\* ---- process gaps -------------------------------------------------------

\* the key columns (upstream, downstream) of a gap finding, from the
\* candidate it was found on
KeyColsOf(g) ==
    {p \in Range(Frame(dfs, g.stage_from).columns) \X Range(Frame(dfs, g.stage_to).columns) :
        \E j \in DOMAIN joins :
            /\ joins[j].key = g.key
            /\ \/ /\ joins[j].file_a = g.stage_from /\ joins[j].file_b = g.stage_to
                  /\ p = <<JoinColA(joins[j]), JoinColB(joins[j])>>
               \/ /\ joins[j].file_a = g.stage_to /\ joins[j].file_b = g.stage_from
                  /\ p = <<JoinColB(joins[j]), JoinColA(joins[j])>>}

\* some non-null upstream key value does not appear in the downstream column
SomeKeyMissing(g) ==
    \E p \in KeyColsOf(g) :
        \E v \in Range(dropna(Column(Frame(dfs, g.stage_from), p[1]))) :
            v \notin Range(Column(Frame(dfs, g.stage_to), p[2]))

\* C8: no gap finding is emitted for a pair whose distinct non-null upstream
\* key values all appear in the downstream key column, and no emitted gap
\* finding has missing_count = 0.
C8_NoGapWhenAllKeysPresent ==
    AfterGaps =>
        \A i \in DOMAIN gaps :
            /\ gaps[i].missing_count > 0
            /\ SomeKeyMissing(gaps[i])

\* ---- scores -------------------------------------------------------------

\* the place of column c of dataset i in the list of column scores
ColPos(i, c) == SumSeq([k \in 1..(i - 1) |-> Len(dfs[k].columns)]) + c

AllNull(cells) == \A r \in DOMAIN cells : cells[r].k = "null"

\* every row holds the same single value
SingleValue(cells) ==
    /\ cells # <<>>
    /\ cells[1].k # "null"
    /\ \A r \in DOMAIN cells : cells[r] = cells[1]

\* an all-null column of a dataset with at least one row contributes 0
AllNullColumnsScore0 ==
    \A i \in DOMAIN dfs : \A c \in DOMAIN dfs[i].columns :
        (Len(dfs[i].rows) >= 1 /\ AllNull(Column(dfs[i], dfs[i].columns[c])))
        => score_data.col_scores[ColPos(i, c)] = <<0, 1>>

\* C9 as claimed: an all-null column contributes 0 and a single-valued
\* column contributes 50, for every row count of the dataset.
C9_AsClaimed ==
    pc = "done" =>
        /\ AllNullColumnsScore0
        /\ \A i \in DOMAIN dfs : \A c \in DOMAIN dfs[i].columns :
            (Len(dfs[i].rows) >= 1 /\ SingleValue(Column(dfs[i], dfs[i].columns[c])))
            => score_data.col_scores[ColPos(i, c)] = <<50, 1>>

\* C9, amended: an all-null column contributes 0 for every row count; a
\* single-valued column contributes 50 when the dataset has more than 5 rows.
C9_NullAndSingleValuedColumns ==
    pc = "done" =>
        /\ AllNullColumnsScore0
        /\ \A i \in DOMAIN dfs : \A c \in DOMAIN dfs[i].columns :
            (Len(dfs[i].rows) > 5 /\ SingleValue(Column(dfs[i], dfs[i].columns[c])))
            => score_data.col_scores[ColPos(i, c)] = <<50, 1>>

\* a single-valued column of a dataset of six rows, scored 50
C9_Witness ==
    /\ pc = "done"
    /\ \E i \in DOMAIN dfs : \E c \in DOMAIN dfs[i].columns :
        /\ Len(dfs[i].rows) = 6
        /\ SingleValue(Column(dfs[i], dfs[i].columns[c]))
        /\ score_data.col_scores[ColPos(i, c)] = <<50, 1>>

\* C10: after calculate_scores completeness, uniqueness, validity and
\* timeliness are numbers in [0, 100], never null; consistency is null
\* exactly when the run has fewer than 2 datasets and otherwise a number in
\* [0, 100].
C10_DimensionScores ==
    pc = "done" =>
        /\ \A d \in {"completeness", "uniqueness", "validity", "timeliness"} :
            score_data.scores[d] # None /\ score_data.scores[d] \in 0..1000
        /\ score_data.scores.consistency = None <=> Len(dfs) < 2
        /\ Len(dfs) >= 2 => score_data.scores.consistency \in 0..1000

\* two datasets with integration findings: consistency is a number, capped
\* at 0 from below
C10_Witness ==
    /\ pc = "done"
    /\ Len(dfs) = 2
    /\ orphans # <<>>
    /\ score_data.scores.consistency = 0

\* ---- consistency ----------------------------------------------------------

\* the pooled percentages of the orphan and the gap findings, in tenths
Pooled ==
    [i \in DOMAIN orphans |-> orphans[i].pct_of_source]
    \o [i \in DOMAIN gaps |-> gaps[i].pct_of_upstream]

Worst == CHOOSE w \in Range(Pooled) : \A x \in Range(Pooled) : x <= w

\* 100 - 0.65 * worst - 0.35 * average in tenths, as the fraction
\* RawConsistencyNum / RawConsistencyDen
RawConsistencyNum == 100000 * Len(Pooled) - 65 * Worst * Len(Pooled) - 35 * SumSeq(Pooled)

RawConsistencyDen == 100 * Len(Pooled)

\* C11 as claimed: with 2 or more datasets consistency equals
\* cap(100 - 0.65 * worst - 0.35 * average, 0, 100), and 95 without findings.
C11_AsClaimed ==
    (pc = "done" /\ Len(dfs) >= 2) =>
        IF Pooled = <<>> THEN score_data.scores.consistency = 950
        ELSE \/ /\ RawConsistencyNum <= 0
                /\ score_data.scores.consistency = 0
             \/ /\ RawConsistencyNum >= 1000 * RawConsistencyDen
                /\ score_data.scores.consistency = 1000
             \/ /\ RawConsistencyNum > 0
                /\ RawConsistencyNum < 1000 * RawConsistencyDen
                /\ score_data.scores.consistency * RawConsistencyDen = RawConsistencyNum

\* C11, amended: with 2 or more datasets consistency equals
\* cap(round(100 - 0.65 * worst - 0.35 * average, 1), 0, 100), the value
\* rounded to one decimal before the cap, and 95 without findings.
C11_ConsistencyFormula ==
    (pc = "done" /\ Len(dfs) >= 2) =>
        IF Pooled = <<>> THEN score_data.scores.consistency = 950
        ELSE \/ /\ RawConsistencyNum <= 0
                /\ score_data.scores.consistency = 0
             \/ /\ RawConsistencyNum >= 1000 * RawConsistencyDen
                /\ score_data.scores.consistency = 1000
             \/ /\ score_data.scores.consistency \in 0..1000
                /\ IsRounded(score_data.scores.consistency,
                             RawConsistencyNum, RawConsistencyDen)

\* findings of different percentages, so that worst and average differ, and
\* a value that is not a whole number of tenths before it is rounded
C11_Witness ==
    /\ pc = "done"
    /\ Len(dfs) >= 2
    /\ Len(Pooled) >= 2
    /\ \E i \in DOMAIN Pooled : Pooled[i] # Worst
    /\ RawConsistencyNum % RawConsistencyDen # 0
    /\ score_data.scores.consistency \in 1..999

\* ---- composite score ------------------------------------------------------

\* the weight tables of the claim, in hundredths
MultiWeights ==
    [completeness |-> 18, uniqueness |-> 18, validity |-> 14,
     consistency |-> 35, timeliness |-> 15]

SingleWeights ==
    [completeness |-> 30, uniqueness |-> 28, validity |-> 27,
     consistency |-> 0, timeliness |-> 15]

DimNames == {"completeness", "uniqueness", "validity", "consistency", "timeliness"}

\* the dimensions that count: score non-null and weight non-zero
Counted == {d \in DimNames : score_data.weights[d] > 0 /\ score_data.scores[d] # None}

RECURSIVE SumOver(_, _)
SumOver(f, S) ==
    IF S = {} THEN 0
    ELSE LET d == CHOOSE x \in S : TRUE IN f[d] + SumOver(f, S \ {d})

\* W - 2 * (dataset_count - 1) in tenths, as the fraction
\* RawOverallNum / RawOverallDen
RawOverallDen == SumOver(score_data.weights, Counted)

RawOverallNum ==
    SumOver([d \in DimNames |-> score_data.scores[d] * score_data.weights[d]], Counted)
    - 20 * (Len(dfs) - 1) * RawOverallDen

\* the weight table in use is the one of the claim, sums to 1, and gives
\* consistency the largest weight when there are 2 or more datasets
WeightTables ==
    /\ score_data.weights = IF Len(dfs) >= 2 THEN MultiWeights ELSE SingleWeights
    /\ SumOver(MultiWeights, DimNames) = 100
    /\ SumOver(SingleWeights, DimNames) = 100
    /\ \A d \in DimNames \ {"consistency"} : MultiWeights[d] < MultiWeights.consistency

\* C12 as claimed: the composite score equals cap(W - 2 * (dataset_count - 1),
\* 0, 92), W the weighted average over the dimensions with a non-null score
\* and a non-zero weight, under the two weight tables.
C12_AsClaimed ==
    pc = "done" =>
        /\ WeightTables
        /\ RawOverallDen > 0
        /\ \/ /\ RawOverallNum <= 0
              /\ score_data.scores.overall = 0
           \/ /\ RawOverallNum >= 920 * RawOverallDen
              /\ score_data.scores.overall = 920
           \/ /\ RawOverallNum > 0
              /\ RawOverallNum < 920 * RawOverallDen
              /\ score_data.scores.overall * RawOverallDen = RawOverallNum

\* C12, amended: the composite score equals
\* cap(round(W - 2 * (dataset_count - 1), 1), 0, 92), the value rounded to
\* one decimal before the cap.
C12_CompositeFormula ==
    pc = "done" =>
        /\ WeightTables
        /\ RawOverallDen > 0
        /\ \/ /\ RawOverallNum <= 0
              /\ score_data.scores.overall = 0
           \/ /\ RawOverallNum >= 920 * RawOverallDen
              /\ score_data.scores.overall = 920
           \/ /\ score_data.scores.overall \in 0..920
              /\ IsRounded(score_data.scores.overall, RawOverallNum, RawOverallDen)

\* a run of two datasets: all five dimensions count, the penalty is 2, and
\* the weighted average is not a whole number of tenths
C12_Witness ==
    /\ pc = "done"
    /\ Len(dfs) = 2
    /\ Counted = DimNames
    /\ RawOverallNum % RawOverallDen # 0
    /\ score_data.scores.overall \in 1..919

\* ---- load failures --------------------------------------------------------

\* the uploads read so far
Read == SubSeq(files, 1, loaded)

\* the uploads read so far that loaded, and those that failed, in order
LoadedFiles == SelectSeq(Read, LAMBDA f : f.ok)

FailedFiles == SelectSeq(Read, LAMBDA f : ~f.ok)

\* one error per failed file, naming it, in the order of the uploads
OneErrorPerFailure == errors = [i \in DOMAIN FailedFiles |-> FailedFiles[i].name]

\* the dataset map holds exactly the files that loaded
ExactlyTheLoaded ==
    /\ Len(dfs) = Len(LoadedFiles)
    /\ \A k \in DOMAIN LoadedFiles : \E i \in DOMAIN dfs : dfs[i] = ReadFrame(LoadedFiles[k])
    /\ \A i \in DOMAIN dfs : \E k \in DOMAIN LoadedFiles : dfs[i] = ReadFrame(LoadedFiles[k])

\* run_analysis has returned None / the result bundle
ReturnedNone == pc = "none"

ReturnedBundle == pc = "returned"

\* C13: each file that fails to load adds exactly one error naming it and is
\* left out of the dataset map; the analysis returns None iff no file
\* loaded, and otherwise runs to a complete result bundle computed from
\* exactly the files that loaded.
C13_LoadFailures ==
    /\ OneErrorPerFailure
    /\ ExactlyTheLoaded
    /\ ReturnedNone => (loaded = Len(files) /\ LoadedFiles = <<>>)
    /\ (loaded = Len(files) /\ LoadedFiles = <<>>) => pc \in {"load", "none"}
    /\ ReturnedBundle =>
        /\ loaded = Len(files)
        /\ LoadedFiles # <<>>
        /\ DOMAIN score_data # {}
        /\ DOMAIN impact # {}

\* ---- candidates naming an absent column -----------------------------------

\* the candidate names a column that the dataset it is applied to lacks
Absent(j) ==
    \/ ~HasCol(Frame(dfs, j.file_a), JoinColA(j))
    \/ ~HasCol(Frame(dfs, j.file_b), JoinColB(j))

\* the join list without the candidates naming an absent column
WithoutAbsent == SelectSeq(joins, LAMBDA j : ~Absent(j))

\* C14: a candidate naming a column absent from its dataset is skipped by
\* check_orphan_records and check_process_gaps, and the findings of both
\* checks are those of the join list without that candidate.
C14_AbsentColumnSkipped ==
    AfterGaps =>
        /\ orphans = check_orphan_records(dfs, WithoutAbsent)
        /\ gaps = check_process_gaps(dfs, WithoutAbsent)

\* ---- the checks leave their inputs alone ----------------------------------

\* control is in one of the checks, the scoring or the impact estimate
InChecks == pc \in {"orphans", "dupes", "gaps", "scores", "done"}

\* C15: no check and no scoring step changes its inputs: across
\* detect_join_keys the datasets are unchanged, and across
\* check_orphan_records, check_entity_duplicates, check_process_gaps,
\* calculate_scores and estimate_monetary_impact both the datasets and the
\* join list passed to the checks are unchanged.
C15_InputsUnchanged ==
    [][/\ loaded = Len(files) => dfs' = dfs
       /\ InChecks => joins' = joins]_vars

\* a run of two datasets has returned with orphan, duplicate and gap
\* findings and a monetary estimate, and the datasets are still the frames read
C15_Witness ==
    /\ ReturnedBundle
    /\ Len(dfs) = 2
    /\ orphans # <<>>
    /\ gaps # <<>>
    /\ impact.has_monetary
    /\ \A i \in DOMAIN dfs : dfs[i] = ReadFrame(files[i])

\* ---- the pipeline order of check_process_gaps -----------------------------

\* all datasets receive the same stage rank
SameStageRank == \A i, k \in DOMAIN dfs : stage_rank(dfs[i].name) = stage_rank(dfs[k].name)

\* the datasets by descending row count (input order among equal counts)
ByRowCount == [i \in DOMAIN dfs |-> ordered(dfs)[i].name]

\* the findings of the adjacent pairs of the order p
GapsOfOrder(p) ==
    SortDesc(Concat([i \in 1..(Len(p) - 1) |-> GapOfPair(dfs, joins, p[i], p[i + 1])]),
             PctOfUpstream)

\* C16: when all datasets receive the same stage rank, the adjacent pairs
\* checked by check_process_gaps are those of the datasets ordered by
\* descending row count.
C16_RowCountFallback ==
    (AfterGaps /\ Len(dfs) >= 2 /\ SameStageRank) => gaps = GapsOfOrder(ByRowCount)

\* ---- one gap finding per adjacent pair ------------------------------------

\* the candidate links the two datasets
Links(j, fa, fb) == {j.file_a, j.file_b} = {fa, fb}

\* the key column of the candidate in the upstream dataset fa and in the
\* other, downstream dataset
UpCol(j, fa) == IF j.file_a = fa THEN JoinColA(j) ELSE JoinColB(j)

DownCol(j, fa) == IF j.file_a = fa THEN JoinColB(j) ELSE JoinColA(j)

\* the places in the join list of the candidates linking fa and fb whose
\* columns exist in their datasets
UsableLinks(fa, fb) == {j \in DOMAIN joins : Links(joins[j], fa, fb) /\ ~Absent(joins[j])}

\* the distinct non-null values of the upstream key column that are absent
\* from the downstream key column
MissingVals(j, fa, fb) ==
    Range(dropna(Column(Frame(dfs, fa), UpCol(j, fa))))
        \ Range(Column(Frame(dfs, fb), DownCol(j, fa)))

GapsFor(fa, fb) == {i \in DOMAIN gaps : gaps[i].stage_from = fa /\ gaps[i].stage_to = fb}

\* the pair has exactly one finding, counting the missing values of the
\* first usable candidate that links it, if that candidate has any
OneGapFor(fa, fb) ==
    LET j == joins[CHOOSE k \in UsableLinks(fa, fb) : \A m \in UsableLinks(fa, fb) : k <= m]
    IN  MissingVals(j, fa, fb) # {} =>
            /\ Cardinality(GapsFor(fa, fb)) = 1
            /\ \A i \in GapsFor(fa, fb) :
                   gaps[i].missing_count = Cardinality(MissingVals(j, fa, fb))

\* C17: for every adjacent pair of the pipeline order linked by a candidate
\* whose columns exist, if some distinct non-null upstream key value is
\* absent downstream then exactly one GapFinding is emitted for the pair,
\* with missing_count the number of such values, for exact-name and for
\* fuzzy candidates, whichever dataset the candidate lists as file_a.
C17_OneGapPerAdjacentPair ==
    (AfterGaps /\ Len(dfs) >= 2) =>
        \A i \in 1..(Len(dfs) - 1) :
            UsableLinks(pipeline(dfs)[i], pipeline(dfs)[i + 1]) # {}
            => OneGapFor(pipeline(dfs)[i], pipeline(dfs)[i + 1])

\* ---- the keyword order ----------------------------------------------------

\* the place in the vocabulary of the first keyword contained in the name;
\* one past the vocabulary when the name contains none
KeywordIndex(name) ==
    IF \E i \in DOMAIN STAGE_KEYWORDS : Contains(Lower(name), STAGE_KEYWORDS[i])
    THEN CHOOSE i \in DOMAIN STAGE_KEYWORDS :
            /\ Contains(Lower(name), STAGE_KEYWORDS[i])
            /\ \A k \in 1..(i - 1) : ~Contains(Lower(name), STAGE_KEYWORDS[k])
    ELSE Len(STAGE_KEYWORDS) + 1

\* dataset k comes before dataset i: lower keyword index, or the same one
\* and earlier in the input
StageBefore(k, i) ==
    \/ KeywordIndex(dfs[k].name) < KeywordIndex(dfs[i].name)
    \/ KeywordIndex(dfs[k].name) = KeywordIndex(dfs[i].name) /\ k < i

StagePos(i) == 1 + Cardinality({k \in DOMAIN dfs : StageBefore(k, i)})

KeywordOrder == [p \in DOMAIN dfs |-> dfs[CHOOSE i \in DOMAIN dfs : StagePos(i) = p].name]

PosIn(order, name) == CHOOSE p \in DOMAIN order : order[p] = name

\* C18: when ranks differ, the datasets are ordered by the index of the
\* first vocabulary keyword contained in the name, names without keyword
\* last, ties in input order; the findings are those of the adjacent pairs
\* of that order: at most dataset_count - 1 of them, each with stage_from
\* immediately before stage_to and no pair reported twice.
C18_KeywordOrder ==
    (AfterGaps /\ Len(dfs) >= 2 /\ ~SameStageRank) =>
        /\ gaps = GapsOfOrder(KeywordOrder)
        /\ Len(gaps) <= Len(dfs) - 1
        /\ \A i \in DOMAIN gaps :
               PosIn(KeywordOrder, gaps[i].stage_to) = PosIn(KeywordOrder, gaps[i].stage_from) + 1
        /\ \A i, k \in DOMAIN gaps : gaps[i].stage_from = gaps[k].stage_from => i = k

\* three datasets, two of them with the same rank and the third with
\* another, and a finding for both adjacent pairs
C18_Witness ==
    /\ AfterGaps
    /\ Len(dfs) = 3
    /\ ~SameStageRank
    /\ \E i, k \in DOMAIN dfs : i # k /\ KeywordIndex(dfs[i].name) = KeywordIndex(dfs[k].name)
    /\ Len(gaps) = 2
    /\ KeywordOrder # [i \in DOMAIN dfs |-> dfs[i].name]

\* ---- exact-name and fuzzy candidates for one pair -------------------------

\* the candidate names the same column on both sides / different columns
ExactName(j) == JoinColA(j) = JoinColB(j)

CrossName(j) == JoinColA(j) # JoinColB(j)

\* the pair is linked by an exact-name and by a cross-name candidate, both
\* with their columns present
BothKinds(fa, fb) ==
    /\ \E j \in DOMAIN joins : Links(joins[j], fa, fb) /\ ExactName(joins[j]) /\ ~Absent(joins[j])
    /\ \E j \in DOMAIN joins : Links(joins[j], fa, fb) /\ CrossName(joins[j]) /\ ~Absent(joins[j])

\* the exact-name candidates of the join list
ExactCandidates == SelectSeq(joins, ExactName)

\* the findings reported for the pair
ReportedFor(fa, fb) == SelectSeq(gaps, LAMBDA g : g.stage_from = fa /\ g.stage_to = fb)

\* C19: when the join list holds both an exact-name candidate and a fuzzy
\* cross-name candidate linking an adjacent pair, the gap for the pair is
\* the one computed with the exact-name candidate, wherever the two
\* candidates stand in the list.
C19_ExactCandidatePreferred ==
    (AfterGaps /\ Len(dfs) >= 2) =>
        \A i \in 1..(Len(dfs) - 1) :
            BothKinds(pipeline(dfs)[i], pipeline(dfs)[i + 1]) =>
                ReportedFor(pipeline(dfs)[i], pipeline(dfs)[i + 1])
                    = GapOfPair(dfs, ExactCandidates, pipeline(dfs)[i], pipeline(dfs)[i + 1])

\* ---- exact-name candidates of detect_join_keys ----------------------------

\* detect_join_keys has run and the form named no join: the join list is
\* its result
Detected == pc \notin {"load", "none"} /\ cfg.user_joins = <<>>

ColumnNames == UNION {Range(dfs[i].columns) : i \in DOMAIN dfs}

\* the datasets owning the column
OwnersOf(col) == {i \in DOMAIN dfs : HasCol(dfs[i], col)}

\* the number of distinct non-null values of the column in dataset i
DistinctCount(i, col) == Cardinality(Range(dropna(Column(dfs[i], col))))

\* more distinct values than 0.3 times the row count
ManyDistinct(i, col) == 10 * DistinctCount(i, col) > 3 * Len(dfs[i].rows)

Qualifies(col) ==
    /\ Cardinality(OwnersOf(col)) >= 2
    /\ ID_PATTERNS(col) \/ \E i \in OwnersOf(col) : ManyDistinct(i, col)

\* the exact-name candidates labelled with the column name
ExactFor(col) == {j \in DOMAIN joins : joins[j].col_a = NoCol /\ joins[j].key = col}

\* C20: exact-name candidates are emitted for a column name iff it occurs
\* in at least 2 datasets and matches the identifier pattern or has more
\* distinct values than 0.3 times the row count in some owning dataset; a
\* qualifying name owned by k datasets gets exactly k*(k-1)/2 candidates,
\* one per unordered pair of owners, labelled with the column name.
C20_ExactCandidates ==
    Detected =>
        /\ \A j \in DOMAIN joins : joins[j].col_a = NoCol => joins[j].key \in ColumnNames
        /\ \A col \in ColumnNames :
            /\ ~Qualifies(col) => ExactFor(col) = {}
            /\ Qualifies(col) =>
                /\ 2 * Cardinality(ExactFor(col))
                       = Cardinality(OwnersOf(col)) * (Cardinality(OwnersOf(col)) - 1)
                /\ \A a, b \in OwnersOf(col) : a # b =>
                       \E j \in ExactFor(col) :
                           {joins[j].file_a, joins[j].file_b} = {dfs[a].name, dfs[b].name}
                /\ \A j \in ExactFor(col) :
                       \E a, b \in OwnersOf(col) :
                           a # b /\ joins[j].file_a = dfs[a].name /\ joins[j].file_b = dfs[b].name

\* a column that is no identifier, owned by three datasets of which exactly
\* one has many distinct values, with its three candidates; and another
\* shared column with none
C20_Witness ==
    /\ Detected
    /\ \E col \in ColumnNames :
        /\ ~ID_PATTERNS(col)
        /\ Cardinality(OwnersOf(col)) = 3
        /\ Cardinality({i \in OwnersOf(col) : ManyDistinct(i, col)}) = 1
        /\ Cardinality(ExactFor(col)) = 3

\* a shared column that does not qualify, and has no candidate
C20_WitnessNone ==
    /\ Detected
    /\ \E col \in ColumnNames :
        /\ Cardinality(OwnersOf(col)) >= 2
        /\ ~Qualifies(col)
        /\ ExactFor(col) = {}

\* ---- orphan findings per candidate and direction --------------------------

\* the stringified distinct non-null values of the candidate's column in
\* file_a that column B lacks ("ab"), and the other way round ("ba")
Difference(j, d) ==
    IF d = "ab"
    THEN KeyValues(Frame(dfs, j.file_a), JoinColA(j)) \ KeyValues(Frame(dfs, j.file_b), JoinColB(j))
    ELSE KeyValues(Frame(dfs, j.file_b), JoinColB(j)) \ KeyValues(Frame(dfs, j.file_a), JoinColA(j))

DirectionText(j, d) ==
    IF d = "ab" THEN j.file_a \o OneWay \o j.file_b ELSE j.file_b \o OneWay \o j.file_a

\* the (candidate, direction) combinations with a non-empty difference
Combinations ==
    {c \in (DOMAIN joins) \X {"ab", "ba"} :
        ~Absent(joins[c[1]]) /\ Difference(joins[c[1]], c[2]) # {}}

\* the finding reports the combination
Reports(f, c) ==
    /\ f.key = joins[c[1]].key
    /\ f.direction = DirectionText(joins[c[1]], c[2])
    /\ f.orphan_count = Cardinality(Difference(joins[c[1]], c[2]))

\* C21: for each candidate whose columns exist a finding is emitted for a
\* direction iff the difference of the stringified distinct non-null values
\* is non-empty, with orphan_count its size; findings of candidates linking
\* the same pair are not merged: there are as many findings as (candidate,
\* direction) combinations with a non-empty difference.
C21_OrphanPerCandidateDirection ==
    AfterOrphans =>
        /\ Len(orphans) = Cardinality(Combinations)
        /\ \A i \in DOMAIN orphans : \E c \in Combinations : Reports(orphans[i], c)
        /\ \A c \in Combinations :
               Cardinality({i \in DOMAIN orphans : Reports(orphans[i], c)})
                   = Cardinality({e \in Combinations : Reports(
                         [key |-> joins[c[1]].key,
                          direction |-> DirectionText(joins[c[1]], c[2]),
                          orphan_count |-> Cardinality(Difference(joins[c[1]], c[2]))], e)})

\* two candidates link the same pair and both have findings, one of them in
\* both directions, and a third combination has an empty difference
C21_Witness ==
    /\ AfterOrphans
    /\ \E a, b \in DOMAIN joins :
        /\ a # b
        /\ Links(joins[a], joins[b].file_a, joins[b].file_b)
        /\ <<a, "ab">> \in Combinations
        /\ <<a, "ba">> \in Combinations
        /\ \E d \in {"ab", "ba"} : <<b, d>> \in Combinations
        /\ \E d \in {"ab", "ba"} : <<b, d>> \notin Combinations

\* ---- the order of the finding lists ---------------------------------------

\* C22: the orphan findings are in non-increasing order of pct_of_source
\* and the gap findings in non-increasing order of pct_of_upstream.
C22_FindingsSortedDescending ==
    /\ AfterOrphans =>
        \A i, k \in DOMAIN orphans : i < k => orphans[i].pct_of_source >= orphans[k].pct_of_source
    /\ AfterGaps =>
        \A i, k \in DOMAIN gaps : i < k => gaps[i].pct_of_upstream >= gaps[k].pct_of_upstream

\* both lists hold findings of different percentages, and neither is in the
\* order in which the findings were found
C22_Witness ==
    /\ AfterGaps
    /\ \E i \in DOMAIN orphans : orphans[i].pct_of_source < orphans[1].pct_of_source
    /\ orphans # Concat([j \in DOMAIN joins |-> OrphansOfJoin(dfs, joins[j])])
    /\ Len(gaps) >= 2
    /\ gaps[1].pct_of_upstream > gaps[Len(gaps)].pct_of_upstream
    /\ gaps # check_process_gaps_unsorted(dfs, joins)

\* ---- the columns used by check_entity_duplicates --------------------------

\* the dataset reduced to its first identifier column and its first name
\* column
FirstEntityCols(df) ==
    [name    |-> df.name,
     columns |-> <<IdColOf(df), NameColOf(df)>>,
     rows    |-> [r \in DOMAIN df.rows |->
                     <<Column(df, IdColOf(df))[r], Column(df, NameColOf(df))[r]>>]]

\* the dataset reduced to its last identifier column and its last name column
LastIdColOf(df) ==
    df.columns[CHOOSE i \in DOMAIN df.columns :
        IsIdCol(df.columns[i]) /\ \A k \in (i + 1)..Len(df.columns) : ~IsIdCol(df.columns[k])]

LastNameColOf(df) ==
    df.columns[CHOOSE i \in DOMAIN df.columns :
        IsNameCol(df.columns[i]) /\ \A k \in (i + 1)..Len(df.columns) : ~IsNameCol(df.columns[k])]

LastEntityCols(df) ==
    [name    |-> df.name,
     columns |-> <<LastIdColOf(df), LastNameColOf(df)>>,
     rows    |-> [r \in DOMAIN df.rows |->
                     <<Column(df, LastIdColOf(df))[r], Column(df, LastNameColOf(df))[r]>>]]

\* C23: per dataset the identifier column is the first column matching the
\* identifier pattern and the name column the first column matching the
\* name lexicon and not the identifier pattern; a dataset lacking either
\* has no duplicate finding, and the findings are those of the dataset
\* reduced to these two columns: later matching columns have no influence.
C23_FirstEntityColumns ==
    AfterDuplicates =>
        /\ \A i \in DOMAIN dfs :
               ~HasEntityCols(dfs[i]) => \A k \in DOMAIN dupes : dupes[k].file # dfs[i].name
        /\ dupes = Concat([i \in DOMAIN dfs |->
                       IF HasEntityCols(dfs[i])
                       THEN check_entity_duplicates(<<FirstEntityCols(dfs[i])>>)
                       ELSE <<>>])

\* a dataset with two identifier columns and two name columns has a
\* finding, and its last identifier and name columns would give other findings
C23_Witness ==
    /\ AfterDuplicates
    /\ dupes # <<>>
    /\ \E i \in DOMAIN dfs :
        /\ HasEntityCols(dfs[i])
        /\ LastIdColOf(dfs[i]) # IdColOf(dfs[i])
        /\ LastNameColOf(dfs[i]) # NameColOf(dfs[i])
        /\ check_entity_duplicates(<<LastEntityCols(dfs[i])>>) # <<>>
        /\ check_entity_duplicates(<<LastEntityCols(dfs[i])>>) # dupes

\* a dataset with name columns and no identifier column has no finding
C23_WitnessSkipped ==
    /\ AfterDuplicates
    /\ \E i \in DOMAIN dfs :
        /\ \E c \in DOMAIN dfs[i].columns : IsNameCol(dfs[i].columns[c])
        /\ ~HasEntityCols(dfs[i])
        /\ Len(dfs[i].rows) >= 2

\* ---- the window of the fuzzy check ----------------------------------------

\* the distance of b after a in the sorted list of the distinct names S
SortedDistance(S, a, b) == 1 + Cardinality({c \in S : StrLess(a, c) /\ StrLess(c, b)})

\* the qualifying pairs at most w places apart in the sorted name list
FuzzyPairsWithin(df, w) ==
    {p \in NameTexts(df) \X NameTexts(df) :
        /\ StrLess(p[1], p[2])
        /\ SortedDistance(NameTexts(df), p[1], p[2]) <= w
        /\ IsFuzzyPair(p[1], p[2])}

\* the fuzzy finding of the dataset reports exactly the pairs P: it exists
\* iff P is non-empty, counts P and lists pairs of P
ReportsPairs(df, P) ==
    /\ FindingsOf(df, FuzzyType) # {} <=> P # {}
    /\ \A i \in FindingsOf(df, FuzzyType) :
        /\ dupes[i].duplicate_count = Cardinality(P)
        /\ Len(dupes[i].examples) = Min2(5, Cardinality(P))
        /\ \A e \in DOMAIN dupes[i].examples :
            <<dupes[i].examples[e].value_a, dupes[i].examples[e].value_b>> \in P

\* C24 as claimed: the value at sorted position i is compared with the
\* next 30 values, so a qualifying pair at sorted distance d is reported
\* iff 1 <= d <= 30.
C24_AsClaimed ==
    AfterDuplicates =>
        \A df \in Frames :
            (HasEntityCols(df) /\ Cardinality(NameTexts(df)) <= NAME_CAP) =>
                ReportsPairs(df, FuzzyPairsWithin(df, 30))

\* C24, amended: the value at sorted position i is compared with the next
\* 29 values (positions i+1 .. i+29) and with no other, so a qualifying
\* pair at sorted distance d is reported iff 1 <= d <= 29.
C24_FuzzyWindow ==
    AfterDuplicates =>
        \A df \in Frames :
            (HasEntityCols(df) /\ Cardinality(NameTexts(df)) <= NAME_CAP) =>
                ReportsPairs(df, FuzzyPairsWithin(df, 29))

\* a qualifying pair 29 places apart is reported
C24_Witness ==
    /\ AfterDuplicates
    /\ \E df \in Frames :
        /\ HasEntityCols(df)
        /\ \E p \in FuzzyPairsWithin(df, 29) : SortedDistance(NameTexts(df), p[1], p[2]) = 29
        /\ \E i \in FindingsOf(df, FuzzyType) : dupes[i].duplicate_count = 1

\* a qualifying pair 30 places apart is not reported
C24_WitnessOutside ==
    /\ AfterDuplicates
    /\ \E df \in Frames :
        /\ HasEntityCols(df)
        /\ \E p \in FuzzyPairsWithin(df, 30) : SortedDistance(NameTexts(df), p[1], p[2]) = 30
        /\ FindingsOf(df, FuzzyType) = {}

\* ---- the monetary estimate ------------------------------------------------

OrphanCounts == [i \in DOMAIN orphans |-> orphans[i].orphan_count]

DuplicateCounts == [i \in DOMAIN dupes |-> dupes[i].duplicate_count]

MissingCounts == [i \in DOMAIN gaps |-> gaps[i].missing_count]

\* the fraction t equals V * (o + 0.4 * d + g)
IsWeightedTotal(t, V, o, d, g) == t[1] * V[2] * 5 = V[1] * (5 * o + 2 * d + 5 * g) * t[2]

\* the reported total is the sum of the item values
TotalIsSumOfItems ==
    LET s == FracSum([i \in DOMAIN impact.items |-> impact.items[i].value])
    IN  impact.total[1] * s[2] = s[1] * impact.total[2]

\* C25 as claimed: when an average monetary value V exists the total is
\* V * (sum of orphan_count over all orphan findings + 0.4 * sum of
\* duplicate_count over all duplicate findings + sum of missing_count over
\* all gap findings), and it is the sum of the item values.
C25_AsClaimed ==
    (ReturnedBundle /\ impact.has_monetary) =>
        /\ IsWeightedTotal(impact.total, impact.avg_value,
                           SumSeq(OrphanCounts), SumSeq(DuplicateCounts), SumSeq(MissingCounts))
        /\ TotalIsSumOfItems

\* C25, amended: the items are those of the first two orphan findings, the
\* first duplicate finding and the first gap finding, and the total is V
\* times (their orphan counts + 0.4 * that duplicate count + that missing
\* count), which is the sum of the item values.
C25_MonetaryTotal ==
    (ReturnedBundle /\ impact.has_monetary) =>
        /\ IsWeightedTotal(impact.total, impact.avg_value,
                           SumSeq(Take(OrphanCounts, 2)), SumSeq(Take(DuplicateCounts, 1)),
                           SumSeq(Take(MissingCounts, 1)))
        /\ TotalIsSumOfItems
        /\ Len(impact.items)
               = Min2(2, Len(orphans)) + Min2(1, Len(dupes)) + Min2(1, Len(gaps))

\* an estimate for a run with more than two orphan findings, two duplicate
\* findings and two gap findings
C25_Witness ==
    /\ ReturnedBundle
    /\ impact.has_monetary
    /\ Len(orphans) > 2
    /\ Len(dupes) = 2
    /\ Len(gaps) = 2
    /\ Len(impact.items) = 4

\* ---- timeliness -----------------------------------------------------------

\* the parseable values of the temporal columns of the datasets D, as days
TemporalValues(D) ==
    Concat([i \in DOMAIN D |->
        Concat([c \in DOMAIN D[i].columns |->
            IF is_date_col(D[i].columns[c])
            THEN SelectSeq(Parsed(Column(D[i], D[i].columns[c])), LAMBDA v : v # NaT)
            ELSE <<>>])])

\* the age in whole days of the most recent value
AgeOfLatest(D) ==
    now - (CHOOSE v \in Range(TemporalValues(D)) : \A x \in Range(TemporalValues(D)) : x <= v)

\* the number of future-dated values
FutureCount(D) == Cardinality({i \in DOMAIN TemporalValues(D) : TemporalValues(D)[i] > now})

ClaimedTier(d) ==
    IF d < 7 THEN 95 ELSE IF d < 30 THEN 82 ELSE IF d < 90 THEN 65 ELSE IF d < 365 THEN 45 ELSE 25

\* the timeliness of the claim's formula, in tenths
ClaimedTimeliness(D) ==
    IF TemporalValues(D) = <<>> THEN 400
    ELSE Min2(1000, Max2(0, 10 * (ClaimedTier(AgeOfLatest(D)) - 2 * FutureCount(D))))

\* the datasets with every date s days older
Older(s) ==
    [i \in DOMAIN dfs |->
        [dfs[i] EXCEPT !.rows =
            [r \in DOMAIN dfs[i].rows |->
                [c \in DOMAIN dfs[i].rows[r] |->
                    IF dfs[i].rows[r][c].k = "date"
                    THEN Date(dfs[i].rows[r][c].n - s)
                    ELSE dfs[i].rows[r][c]]]]]

\* by how many days the dates are made older
AgeShifts == {1, 2, 6, 24, 61, 280, 366}

TimelinessIsFormula ==
    pc \in {"done", "returned"} => score_data.scores.timeliness = ClaimedTimeliness(dfs)

\* C26 as claimed: timeliness is the tier of the age of the most recent
\* temporal value minus 2 per future-dated value, capped, and 40 without
\* any parseable value; and it is non-increasing as the age of the most
\* recent value grows.
C26_AsClaimed ==
    /\ TimelinessIsFormula
    /\ pc \in {"done", "returned"} =>
        \A s \in AgeShifts :
            Timeliness(Older(s), now) <= score_data.scores.timeliness

\* C26, amended: the formula as claimed; the score is non-increasing as
\* the age of the most recent value grows while the number of future-dated
\* values stays the same.
C26_Timeliness ==
    /\ TimelinessIsFormula
    /\ pc \in {"done", "returned"} =>
        \A s \in AgeShifts :
            FutureCount(Older(s)) = FutureCount(dfs)
            => Timeliness(Older(s), now) <= score_data.scores.timeliness

\* the most recent value is 7 days old and scores 82, with an older value
\* and an unparseable one beside it; 24 days older it scores 65
C26_Witness ==
    /\ pc = "done"
    /\ Len(TemporalValues(dfs)) = 2
    /\ AgeOfLatest(dfs) = 7
    /\ FutureCount(dfs) = 0
    /\ score_data.scores.timeliness = 820
    /\ Timeliness(Older(24), now) = 650

\* future-dated values lower the score by 2 each
C26_WitnessFuture ==
    /\ pc = "done"
    /\ FutureCount(dfs) = 2
    /\ AgeOfLatest(dfs) < 0
    /\ score_data.scores.timeliness = 910

\* ---- labels, grades and colours -------------------------------------------

\* the label and grade pairs, worst first
LabelGradePairs ==
    <<<<"Critical", "F">>, <<"Poor", "D">>, <<"Fair", "C">>, <<"Good", "B">>, <<"Excellent", "A">>>>

\* the place of the label / of the grade in that order
LabelRank(lbl) == CHOOSE i \in DOMAIN LabelGradePairs : LabelGradePairs[i][1] = lbl

GradeRank(g) == CHOOSE i \in DOMAIN LabelGradePairs : LabelGradePairs[i][2] = g

\* the place the thresholds 85, 75, 65, 50 give the score s
ThresholdRank(s) ==
    IF s >= 850 THEN 5 ELSE IF s >= 750 THEN 4 ELSE IF s >= 650 THEN 3 ELSE IF s >= 500 THEN 2 ELSE 1

\* C27: for every composite score in [0, 92] the label, the grade and the
\* display colour follow the same thresholds 85, 75, 65, 50: the pair is
\* Excellent/A, Good/B, Fair/C, Poor/D or Critical/F, label, grade and
\* score carry the same colour, and a higher score never has a worse label
\* or grade.
C27_LabelGradeThresholds ==
    pc = "shown" =>
        /\ <<shown.lbl, shown.grade>> = LabelGradePairs[ThresholdRank(score_data.scores.overall)]
        /\ shown.lc = shown.gc
        /\ shown.color = shown.lc
        /\ \A lower \in 0..score_data.scores.overall :
            /\ LabelRank(score_label(lower)[1]) <= LabelRank(shown.lbl)
            /\ GradeRank(overall_grade(lower)[1]) <= GradeRank(shown.grade)

\* the score 75.0 is shown as Good / B, and 74.9 below it is Fair / C
C27_Witness ==
    /\ pc = "shown"
    /\ score_data.scores.overall = 750
    /\ shown.lbl = "Good"
    /\ shown.grade = "B"
    /\ score_label(749)[1] = "Fair"
    /\ overall_grade(749)[1] = "C"

\* ---- consistency with and without findings --------------------------------

\* the consistency score of a run of two or more datasets without any
\* orphan or gap finding
CleanConsistency == Consistency(<<>>, <<>>, 2)

\* C28: in a run with at least 2 datasets, a run with one or more orphan or
\* gap findings never has a higher consistency score than a run without
\* integration findings (95).
C28_FindingsNeverRaiseConsistency ==
    (pc \in {"done", "returned"} /\ Len(dfs) >= 2 /\ (orphans # <<>> \/ gaps # <<>>))
    => score_data.scores.consistency <= CleanConsistency

\* the identifiers of the rows whose name reads t
IdsOfText(df, t) ==
    LET cells == Column(df, NameColOf(df))
    IN  UNION {IdsSeenWith(df, cells[r]) :
                 r \in {x \in DOMAIN cells : cells[x].k # "null" /\ astype_str(cells, cells[x]) = t}}

\* two distinct name values that differ only in letter case, carry different
\* identifiers and lie inside the fuzzy window of the sorted names
CaseVariants(df) ==
    {p \in NameTexts(df) \X NameTexts(df) :
        /\ p[1] # p[2]
        /\ Lower(p[1]) = Lower(p[2])
        /\ Compared(NameTexts(df), p[1], p[2])
        /\ \E x \in IdsOfText(df, p[1]) : \E y \in IdsOfText(df, p[2]) : x # y}

\* C29: two distinct name values of one dataset that differ only in letter
\* case and carry different identifiers are reported by the same-name check
\* or by the fuzzy-name check, provided they fall inside the fuzzy window.
C29_CaseVariantsReported ==
    AfterDuplicates =>
        \A df \in Frames :
            (HasEntityCols(df) /\ Cardinality(NameTexts(df)) <= NAME_CAP /\ CaseVariants(df) # {}) =>
                FindingsOf(df, SameNameType) \cup FindingsOf(df, FuzzyType) # {}

\* ---- the order of the dataset map -------------------------------------------

\* the orders in which the datasets can be supplied
Orderings ==
    {p \in [DOMAIN dfs -> DOMAIN dfs] : \A i, k \in DOMAIN dfs : i # k => p[i] # p[k]}

\* the dataset map with its entries in the order p
Supplied(p) == [i \in DOMAIN dfs |-> dfs[p[i]]]

\* the stage pairs of the findings with their missing counts
GapPairs(G) == {<<G[i].stage_from, G[i].stage_to, G[i].missing_count>> : i \in DOMAIN G}

\* C30: the gap findings do not depend on the order in which the datasets are
\* supplied: permuting the entries of the dataset map and re-running
\* detect_join_keys and check_process_gaps yields the same stage_from/stage_to
\* pairs with the same missing counts.
C30_GapsOrderIndependent ==
    (AfterGaps /\ cfg.user_joins = <<>>) =>
        \A p \in Orderings :
            GapPairs(check_process_gaps(Supplied(p), detect_join_keys(Supplied(p)))) = GapPairs(gaps)
====
